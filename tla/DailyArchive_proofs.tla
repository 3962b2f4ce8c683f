------------------------- MODULE DailyArchive_proofs -------------------------
(***************************************************************************)
(* Proofs about DailyArchive, for every value of its constants.            *)
(***************************************************************************)
EXTENDS DailyArchive, TLAPS

(* The first pending pair is unique: the order of upload is total.         *)
LEMMA FirstIsUnique ==
    ASSUME NEW todo \in SUBSET (Days \X Tables), NEW p, NEW q,
           FirstOf(todo, p), FirstOf(todo, q)
    PROVE  p = q
<1>1. p \in Days \X Tables /\ q \in Days \X Tables
  BY DEF FirstOf
<1>2. p = q \/ (Before(p, q) /\ Before(q, p))
  BY DEF FirstOf
<1>3. ASSUME Before(p, q), Before(q, p) PROVE FALSE
  BY <1>1, <1>3 DEF Before, Days
<1> QED BY <1>2, <1>3

(* Every variable keeps its type: each action writes a typed value.  The   *)
(* records are handled once, in the lemmas below, so that the case         *)
(* analysis over Next never opens them.                                    *)
LEMMA JobUpdates ==
    ASSUME NEW j \in JobState
    PROVE  /\ IdleJob \in JobState
           /\ \A d \in Days, w \in Int : NewJob(d, w) \in JobState
           /\ \A D \in SUBSET Days : [j EXCEPT !.pc = "list", !.days = D] \in JobState
           /\ \A T \in SUBSET (Days \X Tables) :
                 [j EXCEPT !.pc = "dump", !.todo = T] \in JobState
           /\ \A n \in Nat : [j EXCEPT !.pc = "send", !.data = n] \in JobState
           /\ \A n \in Nat : [j EXCEPT !.pc = "sendMeta", !.data = n] \in JobState
           /\ \A p : [j EXCEPT !.pc = "dump", !.todo = @ \ {p}, !.data = 0] \in JobState
           /\ [j EXCEPT !.pc = "prune", !.data = 0] \in JobState
           /\ [j EXCEPT !.pc = "done"] \in JobState
<1>1. IdleJob \in JobState
  <2>1. 0 \in Days
    BY BoundsAssumption DEF Days
  <2> QED BY <2>1 DEF IdleJob, JobState, JobPc
<1>2. \A d \in Days, w \in Int : NewJob(d, w) \in JobState
  BY <1>1 DEF NewJob, JobState, JobPc
<1>3. \A D \in SUBSET Days : [j EXCEPT !.pc = "list", !.days = D] \in JobState
  BY DEF JobState, JobPc
<1>4. \A T \in SUBSET (Days \X Tables) :
         [j EXCEPT !.pc = "dump", !.todo = T] \in JobState
  BY DEF JobState, JobPc
<1>5. \A n \in Nat : /\ [j EXCEPT !.pc = "send", !.data = n] \in JobState
                     /\ [j EXCEPT !.pc = "sendMeta", !.data = n] \in JobState
  BY DEF JobState, JobPc
<1>6. \A p : [j EXCEPT !.pc = "dump", !.todo = @ \ {p}, !.data = 0] \in JobState
  BY DEF JobState, JobPc
<1>7. /\ [j EXCEPT !.pc = "prune", !.data = 0] \in JobState
      /\ [j EXCEPT !.pc = "done"] \in JobState
  BY DEF JobState, JobPc
<1> QED BY <1>1, <1>2, <1>3, <1>4, <1>5, <1>6, <1>7

(* The board takes what it is asked to take.                               *)
Taken(r) == Store(r) \/ StoreMeta(r) \/ Prune(r)

LEMMA RequestTypes ==
    ASSUME NEW r \in Requests
    PROVE  /\ r.op = "put" => r.pair \in Days \X Tables /\ r.arg \in Nat
           /\ r.op = "meta" => r.arg \in Nat
           /\ r.arg \in Int
BY DEF Requests

LEMMA RequestFields ==
    ASSUME NEW p, NEW n
    PROVE  /\ Put(p, n).op = "put" /\ Put(p, n).pair = p /\ Put(p, n).arg = n
           /\ PutMeta(n).op = "meta" /\ PutMeta(n).arg = n
           /\ Delete(n).op = "prune" /\ Delete(n).arg = n
BY DEF Put, PutMeta, Delete

LEMMA RequestsAreTyped ==
    /\ \A p \in Days \X Tables, n \in Nat : Put(p, n) \in Requests
    /\ \A n \in Nat : PutMeta(n) \in Requests
    /\ \A w \in Int : Delete(w) \in Requests
BY DEF Put, PutMeta, Delete, Requests

LEMMA TakenType ==
    ASSUME TypeOK, NEW r \in Requests, Taken(r)
    PROVE  /\ board' \in Archives /\ meta' \in Nat \cup {Absent}
           /\ cut' \in [Uploaders -> Int]
<1>0. /\ board \in Archives /\ meta \in Nat \cup {Absent}
      /\ cut \in [Uploaders -> Int] /\ today \in Int /\ r.arg \in Int
  BY RequestTypes DEF TypeOK, Days
<1>1. CASE Store(r)
  <2>1. r.pair \in Days \X Tables /\ r.arg \in Nat
    BY <1>1, RequestTypes DEF Store
  <2>2. board' \in Archives
    BY <1>0, <1>1, <2>1 DEF Archives, Store
  <2> QED BY <1>0, <1>1, <2>2 DEF Store
<1>2. CASE StoreMeta(r)
  BY <1>0, <1>2, RequestTypes DEF StoreMeta
<1>3. CASE Prune(r)
  <2>1. board' \in Archives
    BY <1>0, <1>3 DEF Archives, Prune
  <2>2. cut' \in [Uploaders -> Int]
    BY <1>0, <1>3 DEF Prune
  <2> QED BY <1>0, <1>3, <2>1, <2>2 DEF Prune
<1> QED BY <1>1, <1>2, <1>3 DEF Taken

(* What a run has asked for is its first pending pair with the rows it has *)
(* read, the META object it has read, or a prune of its own window.        *)
LEMMA SentIs ==
    ASSUME NEW u \in Uploaders, NEW r \in Sent(u)
    PROVE  \/ /\ job[u].pc = "send" /\ r.op = "put"
              /\ r.pair \in job[u].todo /\ FirstOf(job[u].todo, r.pair)
              /\ r.arg = job[u].data /\ r = Put(r.pair, r.arg)
           \/ /\ job[u].pc = "sendMeta" /\ r = PutMeta(job[u].data)
           \/ /\ job[u].pc = "prune" /\ r = Delete(job[u].window)
<1>1. CASE job[u].pc = "send"
  <2>1. PICK p \in job[u].todo : FirstOf(job[u].todo, p) /\ r = Put(p, job[u].data)
    BY <1>1 DEF Sent
  <2> QED BY <1>1, <2>1, RequestFields
<1>2. CASE job[u].pc = "sendMeta"
  BY <1>2 DEF Sent
<1>3. CASE job[u].pc = "prune"
  BY <1>3 DEF Sent
<1>4. CASE job[u].pc \notin {"send", "sendMeta", "prune"}
  BY <1>4 DEF Sent
<1> QED BY <1>1, <1>2, <1>3, <1>4

LEMMA SentType ==
    ASSUME TypeOK, NEW u \in Uploaders
    PROVE  Sent(u) \subseteq Requests
<1> SUFFICES ASSUME NEW r \in Sent(u) PROVE r \in Requests
  OBVIOUS
<1>1. /\ job[u].todo \subseteq Days \X Tables /\ job[u].data \in Nat
      /\ job[u].window \in Int
  BY DEF TypeOK, JobState
<1> QED BY <1>1, SentIs, RequestsAreTyped

LEMMA CutShortType ==
    ASSUME TypeOK, NEW u \in Uploaders, CutShort(u)
    PROVE  job' \in [Uploaders -> JobState] /\ wire' \subseteq Requests
<1>1. job' \in [Uploaders -> JobState]
  <2>1. job' = [job EXCEPT ![u] = IdleJob] /\ job \in [Uploaders -> JobState]
    BY DEF CutShort, TypeOK
  <2>2. IdleJob \in JobState
    <3>1. job[u] \in JobState
      BY <2>1
    <3> QED BY <3>1, JobUpdates
  <2> QED BY <2>1, <2>2
<1>2. wire' \subseteq Requests
  BY SentType DEF CutShort, TypeOK
<1> QED BY <1>1, <1>2

LEMMA CommitType ==
    ASSUME db \in [Days -> [Tables -> Nat]], NEW d, NEW snap, Commit(d, snap)
    PROVE  db' \in [Days -> [Tables -> Nat]]
<1> DEFINE row == [t \in Tables |-> IF t \in snap THEN db[d][t] + 1 ELSE db[d][t]]
<1>1. db' = [db EXCEPT ![d] = row]
  BY DEF Commit
<1>2. d \in Days => row \in [Tables -> Nat]
  OBVIOUS
<1> QED BY <1>1, <1>2

THEOREM TypeCorrect == Spec => []TypeOK
<1>1. Init => TypeOK
  <2> SUFFICES ASSUME Init PROVE TypeOK
    OBVIOUS
  <2>1. 0 \in Days
    BY BoundsAssumption DEF Days
  <2>2. IdleJob \in JobState
    BY <2>1 DEF IdleJob, JobState, JobPc
  <2>3. daemon \in DaemonState /\ once \in [Oneshot -> OnceState]
    BY DEF Init, DaemonState, OnceState
  <2>4. wire \subseteq Requests /\ cut \in [Uploaders -> Int]
    BY DEF Init
  <2>8. healthy \in BOOLEAN /\ overtaken \in BOOLEAN
    BY DEF Init
  <2>5. /\ board \in Archives /\ meta \in Nat \cup {Absent}
        /\ job \in [Uploaders -> JobState]
    BY <2>2 DEF Init, Archives
  <2>6. /\ today \in Days /\ runs \in Nat /\ runOf \in [Days -> Nat]
        /\ db \in [Days -> [Tables -> Nat]]
    BY <2>1 DEF Init
  <2>7. daemon.ts # NoDay <=> daemon.pc \in {"collect", "push", "gate"}
    BY DEF Init
  <2> QED BY <2>3, <2>4, <2>5, <2>6, <2>7, <2>8 DEF TypeOK
<1>2. TypeOK /\ [Next]_vars => TypeOK'
  <2> SUFFICES ASSUME TypeOK, [Next]_vars PROVE TypeOK'
    OBVIOUS
  <2> USE DEF host, cloud
  <2>1. CASE NextDay
    <3>1. today' \in Days
      BY <2>1, BoundsAssumption DEF NextDay, TypeOK, Days
    <3> QED BY <2>1, <3>1 DEF NextDay, TypeOK
  <2>2. CASE BecomeHealthy
    BY <2>2 DEF BecomeHealthy, TypeOK
  <2>3. CASE DaemonStart
    <3>1. /\ daemon.pc = "down"
          /\ daemon' = [daemon EXCEPT !.pc = "boot", !.starts = @ + 1]
      BY <2>3 DEF DaemonStart
    <3>2. daemon \in DaemonState /\ daemon.ts = NoDay
      BY <3>1 DEF TypeOK
    <3>3. daemon' \in DaemonState
      <4> DEFINE n == daemon.starts + 1
      <4>1. n \in Nat
        BY <3>2 DEF DaemonState
      <4>2. daemon' = [daemon EXCEPT !.pc = "boot", !.starts = n]
        BY <3>1
      <4> HIDE DEF n
      <4> QED BY <3>2, <4>1, <4>2 DEF DaemonState
    <3>4. daemon'.ts # NoDay <=> daemon'.pc \in {"collect", "push", "gate"}
      BY <3>1, <3>2 DEF DaemonState
    <3> QED BY <2>3, <3>3, <3>4 DEF DaemonStart, TypeOK
  <2>4. CASE StartRun
    <3>1. runs' \in Nat
      BY <2>4 DEF StartRun, TypeOK
    <3>2. /\ daemon \in DaemonState /\ daemon.pc = "boot"
          /\ daemon' = [daemon EXCEPT !.pc = "sleep"]
          /\ daemon.ts # NoDay <=> daemon.pc \in {"collect", "push", "gate"}
      BY <2>4 DEF StartRun, TypeOK
    <3>3. daemon' \in DaemonState
      BY <3>2 DEF DaemonState
    <3>4. daemon'.ts # NoDay <=> daemon'.pc \in {"collect", "push", "gate"}
      BY <3>2 DEF DaemonState
    <3> QED BY <2>4, <3>1, <3>3, <3>4 DEF StartRun, TypeOK
  <2>5. CASE Tick
    <3>1. CASE BeginTick
      <4>1. today # NoDay
        BY BoundsAssumption DEF TypeOK, Days, NoDay
      <4>2. /\ daemon' \in DaemonState
            /\ daemon'.ts # NoDay <=> daemon'.pc \in {"collect", "push", "gate"}
        BY <3>1, <4>1 DEF BeginTick, TypeOK, DaemonState
      <4> QED BY <3>1, <4>2 DEF BeginTick, TypeOK
    <3>2. CASE TickFails
      BY <3>2 DEF TickFails, EndTick, TypeOK, DaemonState
    <3>3. CASE WriteTick
      <4>1. db' \in [Days -> [Tables -> Nat]]
        BY <3>3, CommitType DEF WriteTick, TypeOK
      <4>2. runOf' \in [Days -> Nat]
        BY <3>3 DEF WriteTick, TypeOK
      <4>3. /\ daemon' \in DaemonState
            /\ daemon'.ts # NoDay <=> daemon'.pc \in {"collect", "push", "gate"}
        BY <3>3 DEF WriteTick, TypeOK, DaemonState
      <4> QED BY <3>3, <4>1, <4>2, <4>3 DEF WriteTick, TypeOK
    <3>4. CASE PushOk
      BY <3>4 DEF PushOk, TypeOK, DaemonState
    <3>5. CASE PushFails
      BY <3>5 DEF PushFails, EndTick, TypeOK, DaemonState
    <3>6. CASE MaybeRun
      <4>1. daemon.ts \in Days
        BY <3>6 DEF MaybeRun, TypeOK, DaemonState
      <4>2. NewJob(daemon.ts, Retention) \in JobState
        <5>1. job["daemon"] \in JobState /\ Retention \in Int
          BY BoundsAssumption DEF TypeOK, Uploaders
        <5> QED BY <4>1, <5>1, JobUpdates
      <4>3. job' \in [Uploaders -> JobState]
        BY <3>6, <4>2 DEF MaybeRun, TypeOK
      <4>4. /\ daemon' \in DaemonState
            /\ daemon'.ts # NoDay <=> daemon'.pc \in {"collect", "push", "gate"}
        BY <3>6, <4>1 DEF MaybeRun, EndTick, TypeOK, DaemonState
      <4> QED BY <3>6, <4>3, <4>4 DEF MaybeRun, TypeOK
    <3> QED BY <2>5, <3>1, <3>2, <3>3, <3>4, <3>5, <3>6 DEF Tick
  <2>6. CASE DaemonExit
    <3>1. job' \in [Uploaders -> JobState] /\ wire' \subseteq Requests
      BY <2>6, CutShortType DEF DaemonExit, Uploaders
    <3>3. /\ daemon' \in DaemonState
          /\ daemon'.ts # NoDay <=> daemon'.pc \in {"collect", "push", "gate"}
      BY <2>6 DEF DaemonExit, TypeOK, DaemonState
    <3> QED BY <2>6, <3>1, <3>3 DEF DaemonExit, CutShort, TypeOK
  <2>7. ASSUME NEW u \in Cli, CliStart(u) PROVE TypeOK'
    <3>1. PICK w \in CliWindows : job' = [job EXCEPT ![u] = NewJob(today, w)]
      BY <2>7 DEF CliStart
    <3>2. NewJob(today, w) \in JobState
      <4>1. job[u] \in JobState /\ today \in Days /\ w \in Int
        BY BoundsAssumption DEF TypeOK, Uploaders
      <4> QED BY <4>1, JobUpdates
    <3>3. job' \in [Uploaders -> JobState]
      BY <3>1, <3>2 DEF TypeOK
    <3> QED BY <2>7, <3>3 DEF CliStart, TypeOK
  <2>8. ASSUME NEW u \in Uploaders, JobStep(u) PROVE TypeOK'
    <3>0. /\ job[u] \in JobState
          /\ job[u].todo \in SUBSET (Days \X Tables) /\ job[u].data \in Nat
          /\ job[u].window \in Int
      BY DEF TypeOK, JobState
    <3>1. CASE Scan(u)
      <4>1. ClosedDaysWithData(job[u].today, job[u].window) \in SUBSET Days
        BY DEF ClosedDaysWithData
      <4>2. job' \in [Uploaders -> JobState]
        BY <3>0, <3>1, <4>1, JobUpdates DEF Scan, TypeOK
      <4> QED BY <3>1, <4>2 DEF Scan, TypeOK
    <3>2. CASE List(u)
      <4>1. Missing(job[u].days, Stored) \in SUBSET (Days \X Tables)
        BY <3>0 DEF Missing, JobState
      <4>2. job' \in [Uploaders -> JobState]
        BY <3>0, <3>2, <4>1, JobUpdates DEF List, TypeOK
      <4>3. cut' \in [Uploaders -> Int]
        BY <3>2 DEF List, TypeOK
      <4> QED BY <3>2, <4>2, <4>3 DEF List, TypeOK
    <3>3. CASE Dump(u)
      <4>1. PICK p \in job[u].todo :
               job' = [job EXCEPT ![u].pc = "send", ![u].data = db[p[1]][p[2]]]
        BY <3>3 DEF Dump
      <4>2. db[p[1]][p[2]] \in Nat
        BY <3>0 DEF TypeOK
      <4>3. job' \in [Uploaders -> JobState]
        BY <3>0, <4>1, <4>2, JobUpdates DEF TypeOK
      <4> QED BY <3>3, <4>3 DEF Dump, TypeOK
    <3>4. CASE Send(u)
      <4>1. PICK p \in job[u].todo :
               /\ Store(Put(p, job[u].data))
               /\ job' = [job EXCEPT ![u].pc = "dump", ![u].todo = @ \ {p},
                                     ![u].data = 0]
        BY <3>4 DEF Send
      <4>2. /\ board' \in Archives /\ meta' \in Nat \cup {Absent}
            /\ cut' \in [Uploaders -> Int]
        <5>1. Put(p, job[u].data) \in Requests
          BY <3>0, RequestsAreTyped
        <5> QED BY <4>1, <5>1, TakenType DEF Taken
      <4>3. job' \in [Uploaders -> JobState]
        BY <3>0, <4>1, JobUpdates DEF TypeOK
      <4> QED BY <3>4, <4>2, <4>3 DEF Send, TypeOK
    <3>5. CASE DumpMeta(u)
      <4>1. job' \in [Uploaders -> JobState]
        BY <3>0, <3>5, JobUpdates DEF DumpMeta, TypeOK
      <4> QED BY <3>5, <4>1 DEF DumpMeta, TypeOK
    <3>6. CASE SendMeta(u)
      <4>1. job' \in [Uploaders -> JobState]
        BY <3>0, <3>6, JobUpdates DEF SendMeta, TypeOK
      <4>2. /\ board' \in Archives /\ meta' \in Nat \cup {Absent}
            /\ cut' \in [Uploaders -> Int]
        <5>1. PutMeta(job[u].data) \in Requests
          BY <3>0, RequestsAreTyped
        <5> QED BY <3>6, <5>1, TakenType DEF SendMeta, Taken
      <4> QED BY <3>6, <4>1, <4>2 DEF SendMeta, TypeOK
    <3>7. CASE PruneBoard(u)
      <4>1. job' \in [Uploaders -> JobState]
        BY <3>0, <3>7, JobUpdates DEF PruneBoard, TypeOK
      <4>2. /\ board' \in Archives /\ meta' \in Nat \cup {Absent}
            /\ cut' \in [Uploaders -> Int]
        <5>1. Delete(job[u].window) \in Requests
          BY <3>0, RequestsAreTyped
        <5> QED BY <3>7, <5>1, TakenType DEF PruneBoard, Taken
      <4> QED BY <3>7, <4>1, <4>2 DEF PruneBoard, TypeOK
    <3> QED BY <2>8, <3>1, <3>2, <3>3, <3>4, <3>5, <3>6, <3>7 DEF JobStep
  <2>9. ASSUME NEW u \in Uploaders, JobFails(u) PROVE TypeOK'
    <3>1. job' \in [Uploaders -> JobState] /\ wire' \subseteq Requests
      BY <2>9, CutShortType DEF JobFails
    <3> QED BY <2>9, <3>1 DEF JobFails, CutShort, TypeOK
  <2>10. ASSUME NEW w \in Oneshot, OnceBegin(w) \/ OnceWrite(w) \/ OnceFails(w)
         PROVE  TypeOK'
    <3>1. once' \in [Oneshot -> OnceState]
      BY <2>10 DEF OnceBegin, OnceWrite, OnceFails, TypeOK, OnceState
    <3>2. db' \in [Days -> [Tables -> Nat]]
      BY <2>10, CommitType DEF OnceBegin, OnceWrite, OnceFails, TypeOK
    <3> QED BY <2>10, <3>1, <3>2 DEF OnceBegin, OnceWrite, OnceFails, TypeOK
  <2>11. CASE UNCHANGED vars
    BY <2>11 DEF TypeOK, vars
  <2>12. CASE Arrive
    <3>1. PICK r \in wire :
            /\ Taken(r) /\ wire' = wire \ {r}
            /\ overtaken' = (overtaken \/ (r.op = "meta" /\ r.arg < meta))
      BY <2>12 DEF Arrive, Taken
    <3>2. wire \subseteq Requests
      BY DEF TypeOK
    <3>3. /\ board' \in Archives /\ meta' \in Nat \cup {Absent}
          /\ cut' \in [Uploaders -> Int]
      BY <3>1, <3>2, TakenType
    <3>4. wire' \subseteq Requests
      BY <3>1, <3>2
    <3>5. overtaken' \in BOOLEAN
      BY <3>1
    <3> QED BY <2>12, <3>3, <3>4, <3>5 DEF Arrive, TypeOK
  <2> QED BY <2>1, <2>2, <2>3, <2>4, <2>5, <2>6, <2>7, <2>8, <2>9, <2>10, <2>11, <2>12
          DEF Next
<1> QED BY <1>1, <1>2, PTL DEF Spec
-----------------------------------------------------------------------------
(* What the requests to the board can change: an object stays, goes with   *)
(* a prune of its date, is the first pending pair of a run, written with   *)
(* what the run has read, or comes in late from a run that is over.        *)
StaysOrAges(d, t) ==
    \/ board'[d][t] = board[d][t]
    \/ board'[d][t] = Absent /\ \A u \in Uploaders : d < cut'[u]

Written(u, d, t) ==
    /\ job[u].pc = "send"
    /\ FirstOf(job[u].todo, <<d, t>>)
    /\ board'[d][t] = job[u].data

(* r is a put request for the object of table t and date d.                *)
PutFor(r, d, t) == r.op = "put" /\ r.pair = <<d, t>>

LateWrite(d, t) == \E r \in wire : PutFor(r, d, t) /\ board'[d][t] = r.arg

LEMMA TakenWrites ==
    ASSUME TypeOK, NEW r \in Requests, Taken(r), NEW d \in Days, NEW t \in Tables
    PROVE  StaysOrAges(d, t) \/ (PutFor(r, d, t) /\ board'[d][t] = r.arg)
<1>1. CASE Store(r)
  <2>1. r.pair \in Days \X Tables
    BY <1>1, RequestTypes DEF Store
  <2>2. r.pair = <<r.pair[1], r.pair[2]>>
    BY <2>1
  <2>3. board'[d][t] = IF d = r.pair[1] /\ t = r.pair[2] THEN r.arg ELSE board[d][t]
    BY <1>1, <2>1 DEF Store, TypeOK, Archives
  <2> QED BY <1>1, <2>2, <2>3 DEF PutFor, StaysOrAges, Store
<1>2. CASE StoreMeta(r)
  BY <1>2 DEF StoreMeta, StaysOrAges
<1>3. CASE Prune(r)
  <2>1. /\ r.arg \in Int /\ today \in Int /\ d \in Int
        /\ cut \in [Uploaders -> Int]
    BY RequestTypes DEF TypeOK, Days
  <2>2. CASE InRetention(d, today, r.arg)
    BY <1>3, <2>2 DEF Prune, StaysOrAges
  <2>3. CASE ~InRetention(d, today, r.arg)
    <3>1. d < today - r.arg /\ today - r.arg \in Int
      BY <2>1, <2>3 DEF InRetention
    <3>2. ASSUME NEW u \in Uploaders PROVE d < cut'[u]
      <4>1. cut'[u] = IF cut[u] < today - r.arg THEN today - r.arg ELSE cut[u]
        BY <1>3 DEF Prune
      <4>2. cut[u] \in Int
        BY <2>1
      <4> QED BY <2>1, <3>1, <4>1, <4>2
    <3>3. board'[d][t] = Absent
      BY <1>3, <2>3 DEF Prune
    <3> QED BY <3>2, <3>3 DEF StaysOrAges
  <2> QED BY <2>2, <2>3
<1> QED BY <1>1, <1>2, <1>3 DEF Taken

LEMMA StepWrites ==
    ASSUME TypeOK, [Next]_vars, NEW d \in Days, NEW t \in Tables
    PROVE  \/ StaysOrAges(d, t)
           \/ \E u \in Uploaders : Written(u, d, t)
           \/ Arrive /\ LateWrite(d, t)
<1>1. CASE board' = board
  BY <1>1 DEF StaysOrAges
<1>2. CASE Arrive
  <2>1. PICK r \in wire : Taken(r)
    BY <1>2 DEF Arrive, Taken
  <2>2. r \in Requests
    BY <2>1 DEF TypeOK
  <2> QED BY <1>2, <2>1, <2>2, TakenWrites DEF LateWrite
<1>3. ASSUME NEW u \in Uploaders, JobStep(u), board' # board
      PROVE  StaysOrAges(d, t) \/ Written(u, d, t)
  <2>0. /\ job[u].todo \subseteq Days \X Tables /\ job[u].data \in Nat
        /\ job[u].window \in Int
    BY DEF TypeOK, JobState
  <2>1. CASE Send(u)
    <3>1. PICK p \in job[u].todo :
             FirstOf(job[u].todo, p) /\ Store(Put(p, job[u].data))
      BY <2>1 DEF Send
    <3>2. Put(p, job[u].data) \in Requests
      BY <2>0, <3>1, RequestsAreTyped
    <3>3. \/ StaysOrAges(d, t)
          \/ PutFor(Put(p, job[u].data), d, t) /\ board'[d][t] = Put(p, job[u].data).arg
      BY <3>1, <3>2, TakenWrites DEF Taken
    <3>4. job[u].pc = "send"
      BY <2>1 DEF Send
    <3> QED BY <3>1, <3>3, <3>4, RequestFields DEF PutFor, Written
  <2>2. CASE PruneBoard(u)
    <3>1. Delete(job[u].window) \in Requests
      BY <2>0, RequestsAreTyped
    <3>2. Delete(job[u].window).op # "put"
      BY RequestFields
    <3> QED BY <2>2, <3>1, <3>2, TakenWrites DEF PruneBoard, Taken, PutFor
  <2>3. Send(u) \/ PruneBoard(u)
    BY <1>3 DEF JobStep, Scan, List, Dump, DumpMeta, SendMeta, StoreMeta, cloud
  <2> QED BY <2>1, <2>2, <2>3
<1>4. board' = board \/ Arrive \/ \E u \in Uploaders : JobStep(u)
  BY DEF Next, vars, cloud, NextDay, BecomeHealthy, DaemonStart, StartRun, Tick,
         BeginTick, TickFails, WriteTick, PushOk, PushFails, MaybeRun, CliStart,
         DaemonExit, JobFails, CutShort, OnceBegin, OnceWrite, OnceFails
<1> QED BY <1>1, <1>2, <1>3, <1>4

(* What may still be on its way after a step: what was, or what a run that *)
(* has just been cut short had asked for.                                  *)
LEMMA StepWire ==
    ASSUME [Next]_vars, NEW r \in wire'
    PROVE  r \in wire \/ \E u \in Uploaders : r \in Sent(u) /\ CutShort(u)
<1>1. CASE wire' \subseteq wire
  BY <1>1
<1>2. ASSUME NEW u \in Uploaders, CutShort(u)
      PROVE  r \in wire \/ r \in Sent(u)
  BY <1>2 DEF CutShort
<1>3. wire' \subseteq wire \/ DaemonExit \/ \E u \in Uploaders : JobFails(u)
  BY DEF Next, vars, cloud, NextDay, BecomeHealthy, DaemonStart, StartRun, Tick,
         BeginTick, TickFails, WriteTick, PushOk, PushFails, MaybeRun, CliStart,
         Arrive, JobStep, Scan, List, Dump, Send, DumpMeta, SendMeta, PruneBoard,
         OnceBegin, OnceWrite, OnceFails
<1>4. "daemon" \in Uploaders
  BY DEF Uploaders
<1> QED BY <1>1, <1>2, <1>3, <1>4 DEF DaemonExit, JobFails

(* What becomes of a run: nothing, its end, a new launch for today's date  *)
(* or the date of the tick, or a step that keeps its dates in order.       *)
LEMMA StepJobs ==
    ASSUME TypeOK, DatesInOrder, [Next]_vars, NEW u \in Uploaders
    PROVE  \/ job'[u] = job[u]
           \/ job'[u] = IdleJob
           \/ u \in Cli /\ \E w \in CliWindows : job'[u] = NewJob(today, w)
           \/ /\ u = "daemon" /\ MaybeRun
              /\ job'[u] = NewJob(daemon.ts, Retention) /\ daemon.ts \in Days
           \/ /\ JobStep(u) /\ job'[u].today = job[u].today
              /\ job'[u].pc # "scan"
              /\ \A d \in job'[u].days : d < job[u].today
              /\ job'[u].todo \subseteq job'[u].days \X Tables
<1> DEFINE Outcome ==
           \/ job'[u] = job[u]
           \/ job'[u] = IdleJob
           \/ u \in Cli /\ \E w \in CliWindows : job'[u] = NewJob(today, w)
           \/ /\ u = "daemon" /\ MaybeRun
              /\ job'[u] = NewJob(daemon.ts, Retention) /\ daemon.ts \in Days
           \/ /\ JobStep(u) /\ job'[u].today = job[u].today
              /\ job'[u].pc # "scan"
              /\ \A d \in job'[u].days : d < job[u].today
              /\ job'[u].todo \subseteq job'[u].days \X Tables
<1>0. /\ job \in [Uploaders -> JobState] /\ job[u] \in JobState
      /\ \A d \in job[u].days : d < job[u].today
      /\ job[u].todo \subseteq job[u].days \X Tables
  BY DEF TypeOK, DatesInOrder, JobsInOrder
<1>1. CASE job' = job
  BY <1>1
<1>2. CASE DaemonExit
  BY <1>0, <1>2 DEF DaemonExit, CutShort
<1>3. CASE MaybeRun
  <2>1. daemon.ts \in Days
    BY <1>3 DEF MaybeRun, TypeOK, DaemonState
  <2> QED BY <1>0, <1>3, <2>1 DEF MaybeRun
<1>4. ASSUME NEW v \in Cli, CliStart(v) PROVE Outcome
  <2>1. PICK w \in CliWindows : job' = [job EXCEPT ![v] = NewJob(today, w)]
    BY <1>4 DEF CliStart
  <2>2. CASE v = u
    <3>1. job'[u] = NewJob(today, w)
      BY <1>0, <2>1, <2>2
    <3> QED BY <1>4, <2>2, <3>1
  <2>3. CASE v # u
    BY <1>0, <2>1, <2>3
  <2> QED BY <2>2, <2>3
<1>5. ASSUME NEW v \in Uploaders, JobFails(v) PROVE Outcome
  BY <1>0, <1>5 DEF JobFails, CutShort
<1>6. ASSUME NEW v \in Uploaders, JobStep(v) PROVE Outcome
  <2>1. CASE v # u
    BY <1>0, <1>6, <2>1 DEF JobStep, Scan, List, Dump, Send, DumpMeta, SendMeta, PruneBoard
  <2>2. CASE v = u
    <3>1. CASE Scan(u)
      <4>1. job'[u] = [job[u] EXCEPT !.pc = "list",
                                     !.days = ClosedDaysWithData(job[u].today, job[u].window)]
        BY <1>0, <3>1 DEF Scan
      <4>2. \A d \in ClosedDaysWithData(job[u].today, job[u].window) : d < job[u].today
        BY DEF ClosedDaysWithData, IsClosed
      <4>3. job[u].pc = "scan" => job[u].todo = {}
        BY DEF DatesInOrder, JobsInOrder
      <4> QED BY <1>0, <1>6, <2>2, <3>1, <4>1, <4>2, <4>3 DEF JobState, Scan
    <3>2. CASE List(u)
      <4>1. job'[u] = [job[u] EXCEPT !.pc = "dump",
                                     !.todo = Missing(job[u].days, Stored)]
        BY <1>0, <3>2 DEF List
      <4>2. Missing(job[u].days, Stored) \subseteq job[u].days \X Tables
        BY DEF Missing
      <4> QED BY <1>0, <1>6, <2>2, <4>1, <4>2 DEF JobState
    <3>3. CASE Dump(u) \/ DumpMeta(u) \/ SendMeta(u) \/ PruneBoard(u)
      <4>1. /\ job'[u].today = job[u].today /\ job'[u].days = job[u].days
            /\ job'[u].pc # "scan"
            /\ job'[u].todo = job[u].todo
        BY <1>0, <3>3 DEF Dump, DumpMeta, SendMeta, PruneBoard, JobState
      <4> QED BY <1>0, <1>6, <2>2, <4>1
    <3>4. CASE Send(u)
      <4>1. /\ job'[u].today = job[u].today /\ job'[u].days = job[u].days
            /\ job'[u].pc # "scan"
            /\ job'[u].todo \subseteq job[u].todo
        BY <1>0, <3>4 DEF Send, JobState
      <4> QED BY <1>0, <1>6, <2>2, <4>1
    <3> QED BY <1>6, <2>2, <3>1, <3>2, <3>3, <3>4 DEF JobStep
  <2> QED BY <2>1, <2>2
<1>7. \/ job' = job \/ DaemonExit \/ MaybeRun
      \/ \E v \in Cli : CliStart(v)
      \/ \E v \in Uploaders : JobStep(v) \/ JobFails(v)
  BY DEF Next, vars, NextDay, BecomeHealthy, DaemonStart, StartRun, Tick,
         BeginTick, TickFails, WriteTick, PushOk, PushFails, Arrive,
         OnceBegin, OnceWrite, OnceFails
<1> QED BY <1>1, <1>2, <1>3, <1>4, <1>5, <1>6, <1>7

(* Dates stay in order at every step, so no open date is ever stored.      *)
LEMMA OrderStep ==
    ASSUME TypeOK, TypeOK', DatesInOrder, [Next]_vars
    PROVE  DatesInOrder'
<1>0. /\ today \in Int /\ today' \in Int /\ today <= today' /\ 0 <= today
  <2>1. today' = today \/ NextDay
    BY DEF Next, vars, BecomeHealthy, DaemonStart, StartRun, Tick,
           BeginTick, TickFails, WriteTick, PushOk, PushFails, MaybeRun, DaemonExit,
           Arrive, CliStart, JobStep, JobFails, Scan, List, Dump, Send, DumpMeta, SendMeta,
           PruneBoard, OnceBegin, OnceWrite, OnceFails
  <2> QED BY <2>1, BoundsAssumption DEF NextDay, TypeOK, Days
<1>1. DaemonInOrder'
  <2>0. /\ daemon.ts \in Int /\ daemon.lastDay \in Int
        /\ daemon.lastDay <= today /\ daemon.ts <= today
        /\ daemon.ts # NoDay => daemon.lastDay <= daemon.ts
    BY BoundsAssumption DEF TypeOK, DaemonState, Days, NoDay, DatesInOrder, DaemonInOrder
  <2>1. CASE daemon'.ts = daemon.ts /\ daemon'.lastDay = daemon.lastDay
    BY <1>0, <2>0, <2>1 DEF DaemonInOrder
  <2>2. CASE BeginTick
    BY <1>0, <2>0, <2>2 DEF BeginTick, TypeOK, DaemonState, DaemonInOrder
  <2>3. CASE daemon'.ts = NoDay /\ daemon'.lastDay \in {daemon.lastDay, daemon.ts, NoDay}
    BY <1>0, <2>0, <2>3 DEF DaemonInOrder, NoDay
  <2>4. \/ daemon'.ts = daemon.ts /\ daemon'.lastDay = daemon.lastDay
        \/ BeginTick
        \/ daemon'.ts = NoDay /\ daemon'.lastDay \in {daemon.lastDay, daemon.ts, NoDay}
    <3>1. \/ UNCHANGED daemon \/ DaemonStart \/ StartRun \/ Tick \/ DaemonExit
      BY DEF Next, vars, NextDay, BecomeHealthy, Arrive, CliStart, JobStep, JobFails, Scan,
             List, Dump, Send, DumpMeta, SendMeta, PruneBoard, OnceBegin,
             OnceWrite, OnceFails
    <3>2. daemon \in DaemonState
      BY DEF TypeOK
    <3>3. CASE UNCHANGED daemon
      BY <3>3
    <3>4. CASE DaemonStart \/ StartRun
      BY <3>2, <3>4 DEF DaemonStart, StartRun, DaemonState
    <3>5. CASE Tick
      BY <3>2, <3>5 DEF Tick, TickFails, WriteTick, PushOk, PushFails, MaybeRun,
                        EndTick, DaemonState
    <3>6. CASE DaemonExit
      BY <3>2, <3>6 DEF DaemonExit, DaemonState
    <3> QED BY <3>1, <3>3, <3>4, <3>5, <3>6
  <2> QED BY <2>1, <2>2, <2>3, <2>4
<1>2. JobsInOrder'
  <2> SUFFICES ASSUME NEW u \in Uploaders
               PROVE  /\ job'[u].today <= today'
                      /\ \A d \in job'[u].days : d < job'[u].today
                      /\ job'[u].todo \subseteq job'[u].days \X Tables
                      /\ job'[u].pc = "scan" => job'[u].todo = {}
    BY DEF JobsInOrder
  <2>0. /\ job[u].today \in Int /\ job[u].today <= today
        /\ \A d \in job[u].days : d < job[u].today
        /\ job[u].todo \subseteq job[u].days \X Tables
        /\ job[u].pc = "scan" => job[u].todo = {}
    BY DEF TypeOK, JobState, Days, DatesInOrder, JobsInOrder
  <2>1. CASE job'[u] = job[u]
    BY <1>0, <2>0, <2>1
  <2>2. CASE job'[u] = IdleJob
    BY <1>0, <2>2 DEF IdleJob
  <2>3. CASE \E w \in CliWindows : job'[u] = NewJob(today, w)
    BY <1>0, <2>3 DEF NewJob, IdleJob
  <2>4. CASE job'[u] = NewJob(daemon.ts, Retention) /\ daemon.ts \in Days
    <3>1. daemon.ts <= today
      BY DEF DatesInOrder, DaemonInOrder
    <3> QED BY <1>0, <2>4, <3>1 DEF NewJob, IdleJob, Days
  <2>5. CASE /\ job'[u].today = job[u].today /\ job'[u].pc # "scan"
             /\ \A d \in job'[u].days : d < job[u].today
             /\ job'[u].todo \subseteq job'[u].days \X Tables
    BY <1>0, <2>0, <2>5
  <2> QED BY StepJobs, <2>1, <2>2, <2>3, <2>4, <2>5
<1>3. OnlyClosedDaysStored'
  <2> SUFFICES ASSUME NEW d \in Days, NEW t \in Tables, board'[d][t] # Absent
               PROVE  d < today'
    BY DEF OnlyClosedDaysStored
  <2>0. d \in Int
    BY DEF Days
  <2>1. CASE board'[d][t] = board[d][t]
    BY <1>0, <2>0, <2>1 DEF DatesInOrder, OnlyClosedDaysStored
  <2>2. ASSUME NEW u \in Uploaders, Written(u, d, t) PROVE d < today'
    <3>1. d < job[u].today /\ job[u].today <= today
      BY <2>2 DEF Written, FirstOf, DatesInOrder, JobsInOrder
    <3>2. job[u].today \in Int
      BY DEF TypeOK, JobState, Days
    <3> QED BY <1>0, <2>0, <3>1, <3>2
  <2>3. CASE LateWrite(d, t)
    <3>1. d < today
      BY <2>3 DEF LateWrite, PutFor, DatesInOrder, WireInOrder
    <3> QED BY <1>0, <2>0, <3>1
  <2> QED BY StepWrites, <2>1, <2>2, <2>3 DEF StaysOrAges
<1>4. WireInOrder'
  <2> SUFFICES ASSUME NEW r \in wire', r.op = "put"
               PROVE  r.pair[1] < today'
    BY DEF WireInOrder
  <2>0. r.pair[1] \in Int
    <3>1. r \in Requests
      BY DEF TypeOK
    <3>2. r.pair \in Days \X Tables
      BY <3>1, RequestTypes
    <3> QED BY <3>2 DEF Days
  <2>1. CASE r \in wire
    <3>1. r.pair[1] < today
      BY <2>1 DEF DatesInOrder, WireInOrder
    <3> QED BY <1>0, <2>0, <3>1
  <2>2. ASSUME NEW u \in Uploaders, r \in Sent(u) PROVE r.pair[1] < today'
    <3>1. r.pair \in job[u].todo
      BY <2>2, SentIs, RequestFields
    <3>2. r.pair[1] < job[u].today /\ job[u].today <= today
      BY <3>1 DEF DatesInOrder, JobsInOrder
    <3>3. job[u].today \in Int
      BY DEF TypeOK, JobState, Days
    <3> QED BY <1>0, <2>0, <3>2, <3>3
  <2> QED BY StepWire, <2>1, <2>2
<1> QED BY <1>1, <1>2, <1>3, <1>4 DEF DatesInOrder

(* No date that is still open ever reaches the board, with any number of   *)
(* sync-archive and sync-once processes beside the daemon (README:216).    *)
THEOREM OpenDaysStayLocal == Spec => []OnlyClosedDaysStored
<1>1. Init => DatesInOrder
  BY DEF Init, DatesInOrder, DaemonInOrder, JobsInOrder, WireInOrder, OnlyClosedDaysStored,
         IdleJob, NoDay, Uploaders
<1>2. TypeOK /\ TypeOK' /\ DatesInOrder /\ [Next]_vars => DatesInOrder'
  BY OrderStep
<1>3. DatesInOrder => OnlyClosedDaysStored
  BY DEF DatesInOrder
<1> QED BY <1>1, <1>2, <1>3, TypeCorrect, PTL DEF Spec

(* The scheduler launches a run only when none is alive, and for a later   *)
(* date than the last one: at most one run per UTC day and process.        *)
THEOREM OneRunPerDay == Spec => LaunchSafely
<1>1. Init => DatesInOrder
  BY DEF Init, DatesInOrder, DaemonInOrder, JobsInOrder, WireInOrder, OnlyClosedDaysStored,
         IdleJob, NoDay, Uploaders
<1>2. TypeOK /\ TypeOK' /\ DatesInOrder /\ [Next]_vars => DatesInOrder'
  BY OrderStep
<1>3. TypeOK /\ DatesInOrder /\ [Next]_vars
      => [Launch => ~Alive("daemon") /\ daemon.lastDay < daemon'.lastDay]_vars
  <2> SUFFICES ASSUME TypeOK, DatesInOrder, [Next]_vars, Launch
               PROVE  ~Alive("daemon") /\ daemon.lastDay < daemon'.lastDay
    OBVIOUS
  <2>1. MaybeRun /\ job' # job
    <3>1. "daemon" \in Uploaders /\ "daemon" \notin Cli
      BY BoundsAssumption DEF Uploaders
    <3>2. IdleJob.pc # "scan"
      BY DEF IdleJob
    <3> QED BY StepJobs, <3>1, <3>2 DEF Launch
  <2>2. ~Alive("daemon") /\ daemon.ts # daemon.lastDay
    BY <2>1 DEF MaybeRun
  <2>3. daemon'.lastDay = daemon.ts
    BY <2>1, <2>2 DEF MaybeRun, TypeOK, DaemonState
  <2>4. daemon.lastDay <= daemon.ts
    BY <2>1 DEF MaybeRun, TypeOK, DatesInOrder, DaemonInOrder
  <2>5. daemon.lastDay \in Int /\ daemon.ts \in Int
    BY DEF TypeOK, DaemonState, Days, NoDay
  <2> QED BY <2>2, <2>3, <2>4, <2>5
<1> QED BY <1>1, <1>2, <1>3, TypeCorrect, PTL DEF Spec, LaunchSafely

-----------------------------------------------------------------------------
(* From here on the daemon is the only writer and the only uploader.       *)

(* Rows of a date change only while a tick dated so is being written.      *)
LEMMA StepRows ==
    ASSUME TypeOK, [Next]_vars, Oneshot = {}, NEW d \in Days
    PROVE  \/ db'[d] = db[d] /\ runOf'[d] = runOf[d]
           \/ WriteTick /\ d = daemon.ts /\ daemon.ts # NoDay
<1>1. CASE UNCHANGED <<db, runOf>>
  BY <1>1
<1>2. CASE WriteTick
  <2>1. PICK snap : Commit(daemon.ts, snap)
    BY <1>2 DEF WriteTick
  <2>2. d # daemon.ts => db'[d] = db[d]
    BY <2>1 DEF Commit, TypeOK
  <2>3. daemon.ts # NoDay
    BY <1>2 DEF WriteTick, TypeOK
  <2>4. d # daemon.ts => runOf'[d] = runOf[d]
    BY <1>2 DEF WriteTick, TypeOK
  <2> QED BY <1>2, <2>2, <2>3, <2>4
<1> QED BY <1>1, <1>2
        DEF Next, vars, host, NextDay, BecomeHealthy, DaemonStart, StartRun, Tick,
            BeginTick, TickFails, PushOk, PushFails, MaybeRun, DaemonExit, Arrive,
            CliStart, JobStep, JobFails, Scan, List, Dump, Send, DumpMeta, SendMeta,
            PruneBoard

(* A date before the run's own, on the board or on its way to it gets no   *)
(* more rows.                                                              *)
OnItsWay(d) == \E r \in wire : r.op = "put" /\ r.pair[1] = d

LEMMA SealedRows ==
    ASSUME TypeOK, Sealed, [Next]_vars, Oneshot = {}, NEW d \in Days,
           \/ d < job["daemon"].today \/ OnItsWay(d)
           \/ \E t \in Tables : board[d][t] # Absent
    PROVE  db'[d] = db[d] /\ runOf'[d] = runOf[d]
<1>1. ASSUME WriteTick, d = daemon.ts, daemon.ts # NoDay PROVE FALSE
  <2>1. job["daemon"].today <= daemon.ts
    BY <1>1 DEF Sealed
  <2>2. \A t \in Tables : board[d][t] # Absent => d < daemon.ts
    BY <1>1 DEF Sealed
  <2>3. daemon.ts \in Int /\ job["daemon"].today \in Int
    BY DEF TypeOK, DaemonState, JobState, Uploaders, Days, NoDay
  <2>4. OnItsWay(d) => d < daemon.ts
    BY <1>1 DEF Sealed, OnItsWay
  <2> QED BY <1>1, <2>1, <2>2, <2>3, <2>4
<1> QED BY <1>1, StepRows

(* The seal holds at every step: no commit reaches a date that has been    *)
(* read for upload, because the tick in flight is dated later than it.     *)
LEMMA SealStep ==
    ASSUME TypeOK, TypeOK', DatesInOrder, DatesInOrder', Sealed, [Next]_vars,
           Cli = {}, Oneshot = {}
    PROVE  Sealed'
<1>0. /\ Uploaders = {"daemon"} /\ "daemon" \in Uploaders
      /\ job["daemon"] \in JobState /\ daemon \in DaemonState
      /\ job["daemon"].today \in Int /\ daemon.ts \in Int /\ today \in Int
      /\ 0 <= today /\ job["daemon"].today <= today
  <2>1. Uploaders = {"daemon"} /\ "daemon" \in Uploaders
    BY DEF Uploaders
  <2>2. job["daemon"] \in JobState /\ daemon \in DaemonState /\ today \in Days
    BY <2>1 DEF TypeOK
  <2>3. job["daemon"].today \in Int /\ daemon.ts \in Int /\ today \in Int /\ 0 <= today
    BY <2>2 DEF JobState, DaemonState, Days, NoDay
  <2>4. job["daemon"].today <= today
    BY <2>1 DEF DatesInOrder, JobsInOrder
  <2> QED BY <2>1, <2>2, <2>3, <2>4
<1>1. ASSUME NEW d \in Days, NEW t \in Tables, Written("daemon", d, t)
      PROVE  d < job["daemon"].today /\ board'[d][t] = db[d][t]
  <2>1. <<d, t>> \in job["daemon"].todo /\ FirstOf(job["daemon"].todo, <<d, t>>)
    BY <1>1 DEF Written, FirstOf
  <2>2. d < job["daemon"].today
    BY <1>0, <2>1 DEF DatesInOrder, JobsInOrder
  <2> QED BY <1>1, <2>1, <2>2 DEF Written, Sealed
(* In the next state a tick in flight is later than the current run.       *)
<1>2. ASSUME daemon'.ts # NoDay
      PROVE  /\ daemon'.ts \in Int
             /\ job'["daemon"].today <= daemon'.ts
             /\ job["daemon"].today <= daemon'.ts
             /\ \A d \in Days, t \in Tables : board[d][t] # Absent => d < daemon'.ts
             /\ \A r \in wire : r.op = "put" => r.pair[1] < daemon'.ts
  <2>0. daemon'.ts \in Int
    BY DEF TypeOK, DaemonState, Days, NoDay
  <2>1. CASE BeginTick
    <3>1. daemon'.ts = today /\ job' = job
      BY <1>0, <2>1 DEF BeginTick, DaemonState
    <3> QED BY <1>0, <2>0, <3>1 DEF DatesInOrder, OnlyClosedDaysStored, WireInOrder
  <2>2. CASE ~BeginTick
    <3>1. daemon'.ts = daemon.ts
      <4>1. \/ UNCHANGED daemon \/ DaemonStart \/ StartRun \/ Tick \/ DaemonExit
        BY DEF Next, vars, NextDay, BecomeHealthy, Arrive, CliStart, JobStep, JobFails, Scan,
               List, Dump, Send, DumpMeta, SendMeta, PruneBoard, OnceBegin,
               OnceWrite, OnceFails
      <4>2. CASE Tick
        BY <1>0, <1>2, <2>2, <4>2 DEF Tick, TickFails, WriteTick, PushOk, PushFails,
                                      MaybeRun, EndTick, DaemonState
      <4>3. CASE DaemonStart \/ StartRun
        BY <1>0, <4>3 DEF DaemonStart, StartRun, DaemonState
      <4>4. CASE DaemonExit
        BY <1>0, <1>2, <4>4 DEF DaemonExit, DaemonState
      <4> QED BY <4>1, <4>2, <4>3, <4>4
    <3>2. /\ job["daemon"].today <= daemon.ts
          /\ \A d \in Days, t \in Tables : board[d][t] # Absent => d < daemon.ts
          /\ \A r \in wire : r.op = "put" => r.pair[1] < daemon.ts
      BY <1>2, <3>1 DEF Sealed
    <3>3. daemon.ts \in Days
      BY <1>0, <1>2, <3>1 DEF DaemonState
    <3>4. 0 <= daemon.ts
      BY <3>3 DEF Days
    <3>5. job'["daemon"].today <= daemon.ts
      <4>1. IdleJob.today = 0 /\ NewJob(daemon.ts, Retention).today = daemon.ts
        BY DEF IdleJob, NewJob
      <4> QED BY <1>0, <3>2, <3>4, <4>1, StepJobs
    <3> QED BY <2>0, <3>1, <3>2, <3>5
  <2> QED BY <2>1, <2>2
<1>3. ASSUME daemon'.ts # NoDay, NEW d \in Days, NEW t \in Tables,
             board'[d][t] # Absent
      PROVE  d < daemon'.ts
  <2>1. CASE board'[d][t] = board[d][t]
    BY <1>2, <1>3, <2>1
  <2>2. CASE Written("daemon", d, t)
    <3>1. d \in Int /\ d < job["daemon"].today
      BY <1>1, <2>2 DEF Days
    <3> QED BY <1>0, <1>2, <1>3, <3>1
  <2>3. CASE LateWrite(d, t)
    BY <1>2, <1>3, <2>3 DEF LateWrite, PutFor
  <2> QED BY <1>0, <1>3, <2>1, <2>2, <2>3, StepWrites DEF StaysOrAges
<1>4. ASSUME NEW d \in Days,
             \/ d < job["daemon"].today \/ OnItsWay(d)
             \/ \E t \in Tables : board[d][t] # Absent
      PROVE  db'[d] = db[d]
  BY <1>4, SealedRows
<1>5. ArchivedDayComplete'
  <2> SUFFICES ASSUME NEW d \in Days, NEW t \in Tables, board'[d][t] # Absent
               PROVE  d < today' /\ board'[d][t] = db'[d][t]
    BY DEF ArchivedDayComplete
  <2>1. d < today'
    BY DEF DatesInOrder, OnlyClosedDaysStored
  <2>2. CASE board'[d][t] = board[d][t]
    BY <1>4, <2>1, <2>2 DEF Sealed, ArchivedDayComplete
  <2>3. CASE Written("daemon", d, t)
    BY <1>1, <1>4, <2>1, <2>3
  <2>4. CASE LateWrite(d, t)
    <3>1. PICK r \in wire : PutFor(r, d, t) /\ board'[d][t] = r.arg
      BY <2>4 DEF LateWrite
    <3>2. r.arg = db[d][t]
      BY <3>1 DEF PutFor, Sealed
    <3>3. OnItsWay(d)
      BY <3>1 DEF PutFor, OnItsWay
    <3> QED BY <1>4, <2>1, <3>1, <3>2, <3>3
  <2> QED BY <1>0, <2>2, <2>3, <2>4, StepWrites DEF StaysOrAges
<1>6. ASSUME job'["daemon"].pc = "send", NEW p \in job'["daemon"].todo,
             FirstOf(job'["daemon"].todo, p)
      PROVE  job'["daemon"].data = db'[p[1]][p[2]]
  <2>1. CASE job'["daemon"] = job["daemon"]
    <3>1. p \in Days \X Tables /\ p[1] < job["daemon"].today
      BY <1>0, <1>6, <2>1 DEF JobState, DatesInOrder, JobsInOrder
    <3>2. job["daemon"].data = db[p[1]][p[2]]
      BY <1>6, <2>1 DEF Sealed
    <3> QED BY <1>4, <2>1, <3>1, <3>2
  <2>2. CASE Dump("daemon")
    <3>1. PICK q \in job["daemon"].todo :
            /\ FirstOf(job["daemon"].todo, q)
            /\ job' = [job EXCEPT !["daemon"].pc = "send",
                                  !["daemon"].data = db[q[1]][q[2]]]
      BY <2>2 DEF Dump
    <3>2. /\ job'["daemon"].todo = job["daemon"].todo
          /\ job'["daemon"].data = db[q[1]][q[2]]
      BY <1>0, <3>1 DEF TypeOK, JobState
    <3>3. p = q
      <4>1. job["daemon"].todo \in SUBSET (Days \X Tables)
        BY <1>0 DEF JobState
      <4> QED BY <1>6, <3>1, <3>2, <4>1, FirstIsUnique
    <3>4. db' = db
      BY <2>2 DEF Dump, host
    <3> QED BY <3>2, <3>3, <3>4
  <2>3. \/ job'["daemon"] = job["daemon"] \/ Dump("daemon")
    <3>1. IdleJob.pc # "send" /\ NewJob(daemon.ts, Retention).pc # "send"
      BY DEF IdleJob, NewJob
    <3>2. CASE JobStep("daemon")
      <4>1. job'["daemon"].pc = "send" => Dump("daemon")
        <5>1. job \in [Uploaders -> JobState]
          BY DEF TypeOK
        <5>2. Scan("daemon") => job'["daemon"].pc = "list"
          BY <1>0, <5>1 DEF Scan, JobState
        <5>3. List("daemon") => job'["daemon"].pc = "dump"
          BY <1>0, <5>1 DEF List, JobState
        <5>7. ASSUME Send("daemon")
              PROVE  job'["daemon"].pc = "dump"
          <6>1. PICK q \in job["daemon"].todo :
                  job' = [job EXCEPT !["daemon"].pc = "dump",
                                     !["daemon"].todo = @ \ {q},
                                     !["daemon"].data = 0]
            BY <5>7 DEF Send
          <6> QED BY <1>0, <5>1, <6>1 DEF JobState
        <5>4. DumpMeta("daemon") => job'["daemon"].pc = "sendMeta"
          BY <1>0, <5>1 DEF DumpMeta, JobState
        <5>5. SendMeta("daemon") => job'["daemon"].pc = "prune"
          BY <1>0, <5>1 DEF SendMeta, JobState
        <5>6. PruneBoard("daemon") => job'["daemon"].pc = "done"
          BY <1>0, <5>1 DEF PruneBoard, JobState
        <5> QED BY <3>2, <5>2, <5>3, <5>4, <5>5, <5>6, <5>7 DEF JobStep
      <4> QED BY <1>6, <4>1
    <3> QED BY <1>0, <1>6, <3>1, <3>2, StepJobs
  <2> QED BY <2>1, <2>2, <2>3
<1>7. ASSUME NEW r \in wire', r.op = "put"
      PROVE  /\ daemon'.ts # NoDay => r.pair[1] < daemon'.ts
             /\ r.arg = db'[r.pair[1]][r.pair[2]]
  <2>0. r.pair \in Days \X Tables /\ r.pair[1] \in Days /\ r.pair[1] \in Int
    <3>1. r \in Requests
      BY DEF TypeOK
    <3>2. r.pair \in Days \X Tables
      BY <1>7, <3>1, RequestTypes
    <3> QED BY <3>2 DEF Days
  <2>1. CASE r \in wire
    <3>1. OnItsWay(r.pair[1]) /\ r.arg = db[r.pair[1]][r.pair[2]]
      BY <1>7, <2>1 DEF OnItsWay, Sealed
    <3>2. db'[r.pair[1]] = db[r.pair[1]]
      BY <1>4, <2>0, <3>1
    <3> QED BY <1>2, <1>7, <2>1, <3>1, <3>2
  <2>2. CASE r \in Sent("daemon")
    <3>1. /\ job["daemon"].pc = "send" /\ r.pair \in job["daemon"].todo
          /\ FirstOf(job["daemon"].todo, r.pair) /\ r.arg = job["daemon"].data
      BY <1>0, <1>7, <2>2, SentIs, RequestFields
    <3>2. r.pair[1] < job["daemon"].today
      BY <1>0, <3>1 DEF DatesInOrder, JobsInOrder
    <3>3. r.arg = db[r.pair[1]][r.pair[2]]
      BY <3>1 DEF Sealed
    <3>4. db'[r.pair[1]] = db[r.pair[1]]
      BY <1>4, <2>0, <3>2
    <3>5. daemon'.ts # NoDay => r.pair[1] < daemon'.ts
      BY <1>0, <1>2, <2>0, <3>2
    <3> QED BY <3>3, <3>4, <3>5
  <2> QED BY <1>0, <2>1, <2>2, StepWire
<1> QED BY <1>2, <1>3, <1>5, <1>6, <1>7 DEF Sealed

(* With the daemon alone, whatever is on the board is a closed date with   *)
(* all its rows: nothing is ever added to a date after its upload.         *)
THEOREM UploadsAreComplete ==
    ASSUME Cli = {}, Oneshot = {}
    PROVE  Spec => []ArchivedDayComplete
<1>1. Init => DatesInOrder /\ Sealed
  BY DEF Init, DatesInOrder, DaemonInOrder, JobsInOrder, WireInOrder, OnlyClosedDaysStored,
         Sealed, ArchivedDayComplete, IdleJob, NoDay, Uploaders
<1>2. /\ TypeOK /\ TypeOK' /\ DatesInOrder /\ Sealed /\ [Next]_vars
      => DatesInOrder' /\ Sealed'
  BY OrderStep, SealStep
<1>3. Sealed => ArchivedDayComplete
  BY DEF Sealed
<1> QED BY <1>1, <1>2, <1>3, TypeCorrect, PTL DEF Spec

-----------------------------------------------------------------------------
(* What a run has still to do, and what the board holds because of it.     *)

Uploading == {"dump", "send", "sendMeta", "prune", "done"}

(* From the moment a run has listed the board, every object of its dates   *)
(* is on the board or still to be uploaded, unless a prune has taken it.   *)
AccountedFor ==
    \A u \in Uploaders :
        /\ job[u].pc \in Uploading =>
              \A d \in job[u].days, t \in Tables :
                  cut[u] <= d => board[d][t] # Absent \/ <<d, t>> \in job[u].todo
        /\ job[u].pc \in {"sendMeta", "prune", "done"} => job[u].todo = {}

(* With the daemon alone, every run and every prune is of its own window.  *)
OneWindow ==
    /\ job["daemon"].pc # "idle" => job["daemon"].window = Retention
    /\ \A r \in wire : r.op = "prune" => r.arg = Retention
    /\ cut["daemon"] <= 0 \/ cut["daemon"] <= today - Retention

(* With the daemon alone, nothing has to be added to what a run scanned.   *)
ScanIsCurrent ==
    job["daemon"].pc \in {"list"} \cup Uploading =>
        \A d \in Days :
            /\ InRetention(d, today, Retention) /\ d < job["daemon"].today /\ HasRows(d)
            => d \in job["daemon"].days

(* A META object with n rows has every row that the days on the board, or  *)
(* on their way to it, refer to.                                           *)
Covered(n) ==
    \A d \in Days : board[d]["gpu_sample"] # Absent \/ OnItsWay(d) => runOf[d] <= n

MetaIsFresh ==
    /\ \A d \in Days : runOf[d] <= runs
    /\ job["daemon"].pc = "sendMeta" => Covered(job["daemon"].data)
    /\ job["daemon"].pc \in {"prune", "done"} /\ ~overtaken => Covered(meta)

(* What each step of a run does to the run, and to what it uploads.        *)
LEMMA JobEffect ==
    ASSUME TypeOK, NEW u \in Uploaders, JobStep(u)
    PROVE  \/ /\ Scan(u) /\ job'[u].pc = "list"
              /\ job[u].pc = "scan"
              /\ job'[u].days = ClosedDaysWithData(job[u].today, job[u].window)
           \/ /\ job[u].pc \in {"list"} \cup Uploading
              /\ job'[u].days = job[u].days
              /\ \/ /\ List(u) /\ job'[u].pc = "dump"
                    /\ job'[u].todo = Missing(job[u].days, Stored)
                 \/ /\ Dump(u) /\ job[u].pc \in Uploading /\ job'[u].pc = "send"
                    /\ job'[u].todo = job[u].todo
                 \/ /\ Send(u) /\ job[u].pc \in Uploading /\ job'[u].pc = "dump"
                    /\ \E p \in job[u].todo : /\ job'[u].todo = job[u].todo \ {p}
                                              /\ Store(Put(p, job[u].data))
                 \/ /\ DumpMeta(u) /\ job[u].pc \in Uploading
                    /\ job'[u].pc = "sendMeta"
                    /\ job[u].todo = {} /\ job'[u].todo = {} /\ job'[u].data = runs
                 \/ /\ SendMeta(u) /\ job[u].pc = "sendMeta" /\ job'[u].pc = "prune"
                    /\ job'[u].todo = job[u].todo
                 \/ /\ PruneBoard(u) /\ job[u].pc = "prune" /\ job'[u].pc = "done"
                    /\ job'[u].todo = job[u].todo
<1>0. job \in [Uploaders -> JobState] /\ job[u] \in JobState
  BY DEF TypeOK
<1>1. CASE Scan(u)
  BY <1>0, <1>1 DEF Scan, JobState
<1>2. CASE List(u)
  BY <1>0, <1>2 DEF List, JobState, Uploading
<1>3. CASE Dump(u)
  <2>1. PICK p \in job[u].todo :
           job' = [job EXCEPT ![u].pc = "send", ![u].data = db[p[1]][p[2]]]
    BY <1>3 DEF Dump
  <2>2. job[u].pc = "dump"
    BY <1>3 DEF Dump
  <2> QED BY <1>0, <1>3, <2>1, <2>2 DEF JobState, Uploading
<1>4. CASE Send(u)
  <2>1. PICK p \in job[u].todo :
           /\ Store(Put(p, job[u].data))
           /\ job' = [job EXCEPT ![u].pc = "dump", ![u].todo = @ \ {p},
                                 ![u].data = 0]
    BY <1>4 DEF Send
  <2>2. job[u].pc = "send"
    BY <1>4 DEF Send
  <2>3. /\ job'[u].pc = "dump" /\ job'[u].days = job[u].days
        /\ job'[u].todo = job[u].todo \ {p}
    BY <1>0, <2>1 DEF JobState
  <2> QED BY <1>4, <2>1, <2>2, <2>3 DEF Uploading
<1>5. CASE DumpMeta(u)
  BY <1>0, <1>5 DEF DumpMeta, JobState, Uploading
<1>6. CASE SendMeta(u)
  BY <1>0, <1>6 DEF SendMeta, JobState, Uploading
<1>7. CASE PruneBoard(u)
  BY <1>0, <1>7 DEF PruneBoard, JobState, Uploading
<1> QED BY <1>1, <1>2, <1>3, <1>4, <1>5, <1>6, <1>7 DEF JobStep

LEMMA WindowStays ==
    ASSUME TypeOK, NEW u \in Uploaders, JobStep(u)
    PROVE  job'[u].window = job[u].window /\ job[u].pc # "idle"
<1>0. job \in [Uploaders -> JobState] /\ job[u] \in JobState
  BY DEF TypeOK
<1>1. CASE Dump(u)
  <2>1. PICK p \in job[u].todo :
           job' = [job EXCEPT ![u].pc = "send", ![u].data = db[p[1]][p[2]]]
    BY <1>1 DEF Dump
  <2> QED BY <1>0, <1>1, <2>1 DEF JobState, Dump
<1>2. CASE Send(u)
  <2>1. PICK p \in job[u].todo :
           job' = [job EXCEPT ![u].pc = "dump", ![u].todo = @ \ {p}, ![u].data = 0]
    BY <1>2 DEF Send
  <2> QED BY <1>0, <1>2, <2>1 DEF JobState, Send
<1>3. CASE Scan(u) \/ List(u) \/ DumpMeta(u) \/ SendMeta(u) \/ PruneBoard(u)
  BY <1>0, <1>3 DEF JobState, Scan, List, DumpMeta, SendMeta, PruneBoard
<1> QED BY <1>1, <1>2, <1>3 DEF JobStep

(* What a run must count on having been pruned only grows, up to its next  *)
(* listing, and by windows that somebody prunes with.                      *)
CutBy(u, w) ==
    /\ cut'[u] = IF cut[u] < today - w THEN today - w ELSE cut[u]
    /\ \/ \E r \in wire : r.op = "prune" /\ r.arg = w
       \/ \E v \in Uploaders : job[v].pc = "prune" /\ job[v].window = w

LEMMA StepCut ==
    ASSUME TypeOK, [Next]_vars, NEW u \in Uploaders
    PROVE  \/ cut'[u] = cut[u]
           \/ List(u) /\ cut'[u] = 0
           \/ \E w \in Int : CutBy(u, w)
<1>0. cut \in [Uploaders -> Int]
  BY DEF TypeOK
<1>1. CASE cut' = cut
  BY <1>1
<1>2. CASE Arrive
  <2>1. PICK r \in wire : Taken(r)
    BY <1>2 DEF Arrive, Taken
  <2>2. r.arg \in Int
    <3>1. r \in Requests
      BY DEF TypeOK
    <3> QED BY <3>1, RequestTypes
  <2>3. CASE Prune(r)
    <3>1. CutBy(u, r.arg)
      BY <2>3 DEF Prune, CutBy
    <3> QED BY <2>2, <3>1
  <2> QED BY <2>1, <2>3 DEF Taken, Store, StoreMeta
<1>3. ASSUME NEW v \in Uploaders, List(v)
      PROVE  \/ cut'[u] = cut[u]
             \/ List(u) /\ cut'[u] = 0
  <2>1. cut' = [cut EXCEPT ![v] = 0]
    BY <1>3 DEF List
  <2>2. CASE u = v
    BY <1>0, <1>3, <2>1, <2>2
  <2>3. CASE u # v
    BY <1>0, <2>1, <2>3
  <2> QED BY <2>2, <2>3
<1>4. ASSUME NEW v \in Uploaders, PruneBoard(v) PROVE \E w \in Int : CutBy(u, w)
  <2>1. job[v].window \in Int /\ job[v].pc = "prune"
    BY <1>4 DEF TypeOK, JobState, PruneBoard
  <2>2. CutBy(u, job[v].window)
    BY <1>4, <2>1, RequestFields DEF PruneBoard, Prune, CutBy
  <2> QED BY <2>1, <2>2
<1>5. \/ cut' = cut \/ Arrive
      \/ \E v \in Uploaders : List(v) \/ PruneBoard(v)
  BY DEF Next, vars, cloud, NextDay, BecomeHealthy, DaemonStart, StartRun, Tick,
         BeginTick, TickFails, WriteTick, PushOk, PushFails, MaybeRun, CliStart,
         DaemonExit, JobFails, CutShort, JobStep, Scan, Dump, Send, DumpMeta,
         SendMeta, Store, StoreMeta, OnceBegin, OnceWrite, OnceFails
<1> QED BY <1>1, <1>2, <1>3, <1>4, <1>5

LEMMA CutGrows ==
    ASSUME TypeOK, TypeOK', [Next]_vars, NEW u \in Uploaders, ~List(u)
    PROVE  cut[u] \in Int /\ cut'[u] \in Int /\ cut[u] <= cut'[u]
<1>0. cut[u] \in Int /\ cut'[u] \in Int /\ today \in Int
  BY DEF TypeOK, Days
<1>1. ASSUME NEW w \in Int, CutBy(u, w) PROVE cut[u] <= cut'[u]
  BY <1>0, <1>1 DEF CutBy
<1> QED BY <1>0, <1>1, StepCut

LEMMA TimePasses ==
    ASSUME TypeOK, [Next]_vars
    PROVE  /\ today \in Int /\ today' \in Int /\ today <= today'
           /\ \A d \in Days : InRetention(d, today', Retention)
                                => InRetention(d, today, Retention)
<1>1. today \in Int /\ Retention \in Int /\ \A d \in Days : d \in Int
  BY BoundsAssumption DEF TypeOK, Days
<1>2. today' = today \/ today' = today + 1
  BY DEF Next, vars, NextDay, BecomeHealthy, DaemonStart, StartRun, Tick,
         BeginTick, TickFails, WriteTick, PushOk, PushFails, MaybeRun, DaemonExit,
         Arrive, CliStart, JobStep, JobFails, Scan, List, Dump, Send, DumpMeta, SendMeta,
         PruneBoard, OnceBegin, OnceWrite, OnceFails
<1> QED BY <1>1, <1>2 DEF InRetention

(* An object no prune has taken stays on the board, whoever writes to it.  *)
LEMMA StoredStays ==
    ASSUME TypeOK, TypeOK', [Next]_vars, NEW u \in Uploaders, NEW d \in Days,
           NEW t \in Tables, cut'[u] <= d, board[d][t] # Absent
    PROVE  board'[d][t] # Absent
<1>1. ASSUME NEW v \in Uploaders, Written(v, d, t) PROVE board'[d][t] # Absent
  <2>1. job[v].data \in Nat
    BY DEF TypeOK, JobState
  <2> QED BY <1>1, <2>1 DEF Written, Absent
<1>2. CASE LateWrite(d, t)
  <2>1. PICK r \in wire : PutFor(r, d, t) /\ board'[d][t] = r.arg
    BY <1>2 DEF LateWrite
  <2>2. r \in Requests
    BY DEF TypeOK
  <2>3. r.arg \in Nat
    BY <2>1, <2>2, RequestTypes DEF PutFor
  <2> QED BY <2>1, <2>3 DEF Absent
<1>3. cut'[u] \in Int /\ d \in Int
  BY DEF TypeOK, Days
<1>4. CASE StaysOrAges(d, t)
  <2>1. ~(d < cut'[u])
    BY <1>3
  <2> QED BY <1>4, <2>1 DEF StaysOrAges
<1> QED BY <1>1, <1>2, <1>4, StepWrites

LEMMA AccountStep ==
    ASSUME TypeOK, TypeOK', DatesInOrder, AccountedFor, [Next]_vars
    PROVE  AccountedFor'
<1> SUFFICES ASSUME NEW u \in Uploaders
             PROVE  /\ job'[u].pc \in Uploading =>
                          \A d \in job'[u].days, t \in Tables :
                              cut'[u] <= d =>
                                  board'[d][t] # Absent \/ <<d, t>> \in job'[u].todo
                    /\ job'[u].pc \in {"sendMeta", "prune", "done"}
                          => job'[u].todo = {}
  BY DEF AccountedFor
<1>0. /\ job[u].days \subseteq Days /\ job[u].data \in Nat
      /\ job[u].todo \subseteq Days \X Tables
  BY DEF TypeOK, JobState
<1>1. /\ job[u].pc \in Uploading =>
            \A d \in job[u].days, t \in Tables :
                cut[u] <= d => board[d][t] # Absent \/ <<d, t>> \in job[u].todo
      /\ job[u].pc \in {"sendMeta", "prune", "done"} => job[u].todo = {}
  BY DEF AccountedFor
(* Unless the pair is uploaded by this very step, what was accounted for   *)
(* still is.                                                               *)
<1>2. ASSUME job[u].pc \in Uploading, NEW d \in job[u].days, NEW t \in Tables,
             cut'[u] <= d
      PROVE  board'[d][t] # Absent \/ <<d, t>> \in job[u].todo
  <2>1. ~List(u)
    BY <1>2 DEF List, Uploading
  <2>2. cut[u] <= d
    <3>1. d \in Int
      BY <1>0, <1>2 DEF Days
    <3>2. cut[u] \in Int /\ cut'[u] \in Int /\ cut[u] <= cut'[u]
      BY <2>1, CutGrows
    <3> QED BY <1>2, <3>1, <3>2
  <2>3. board[d][t] # Absent => board'[d][t] # Absent
    BY <1>0, <1>2, StoredStays
  <2> QED BY <1>1, <1>2, <2>2, <2>3
<1>3. CASE job'[u] = job[u]
  BY <1>1, <1>2, <1>3
<1>4. CASE job'[u] = IdleJob \/ job'[u].pc = "scan"
  BY <1>4 DEF IdleJob, Uploading
<1>5. CASE JobStep(u)
  <2>1. CASE job'[u].pc = "list"
    BY <2>1 DEF Uploading
  <2>2. CASE /\ List(u) /\ job'[u].pc = "dump" /\ job'[u].days = job[u].days
             /\ job'[u].todo = Missing(job[u].days, Stored)
    <3>1. board' = board
      BY <2>2 DEF List, cloud
    <3>2. ASSUME NEW d \in job[u].days, NEW t \in Tables, board[d][t] = Absent
          PROVE  <<d, t>> \in Missing(job[u].days, Stored)
      BY <3>2 DEF Missing, Stored
    <3> QED BY <2>2, <3>1, <3>2
  <2>3. CASE /\ job[u].pc \in Uploading /\ job'[u].days = job[u].days
             /\ job'[u].todo = job[u].todo
             /\ job'[u].pc \in {"sendMeta", "prune", "done"} => job[u].todo = {}
    BY <1>2, <2>3
  <2>4. CASE /\ job[u].pc \in Uploading /\ job'[u].days = job[u].days
             /\ job'[u].pc = "dump"
             /\ \E p \in job[u].todo : /\ job'[u].todo = job[u].todo \ {p}
                                       /\ Store(Put(p, job[u].data))
    <3>1. PICK p \in job[u].todo : /\ job'[u].todo = job[u].todo \ {p}
                                   /\ Store(Put(p, job[u].data))
      BY <2>4
    <3>2. ASSUME NEW d \in Days, NEW t \in Tables, <<d, t>> = p
          PROVE  board'[d][t] # Absent
      <4>1. board'[d][t] = job[u].data
        BY <1>0, <3>1, <3>2, RequestFields DEF Store, TypeOK, Archives
      <4> QED BY <1>0, <4>1 DEF Absent
    <3>3. ASSUME NEW d \in job[u].days, NEW t \in Tables, cut'[u] <= d
          PROVE  board'[d][t] # Absent \/ <<d, t>> \in job'[u].todo
      BY <1>0, <1>2, <2>4, <3>1, <3>2, <3>3
    <3> QED BY <2>4, <3>3
  <2> QED BY <1>1, <1>5, <2>1, <2>2, <2>3, <2>4, JobEffect DEF Uploading
<1>6. \A d, w : NewJob(d, w).pc = "scan"
  BY DEF NewJob, IdleJob
<1> QED BY <1>3, <1>4, <1>5, <1>6, StepJobs

(* Whoever uploads and whoever writes, whatever window each run has and    *)
(* whatever request comes in late, what a run scanned is on the board at   *)
(* its end, but for what a prune has taken since (archive_sync.py:49).     *)
THEOREM ScansAreStored == Spec => []ScannedDaysStored
<1>1. Init => DatesInOrder /\ AccountedFor
  BY DEF Init, DatesInOrder, DaemonInOrder, JobsInOrder, WireInOrder, OnlyClosedDaysStored,
         IdleJob, NoDay, Uploaders, AccountedFor, Uploading
<1>2. /\ TypeOK /\ TypeOK' /\ DatesInOrder /\ AccountedFor /\ [Next]_vars
      => DatesInOrder' /\ AccountedFor'
  BY OrderStep, AccountStep
<1>3. AccountedFor => ScannedDaysStored
  BY DEF AccountedFor, ScannedDaysStored, Uploading
<1> QED BY <1>1, <1>2, <1>3, TypeCorrect, PTL DEF Spec

LEMMA WindowStep ==
    ASSUME TypeOK, TypeOK', DatesInOrder, OneWindow, [Next]_vars, Cli = {}
    PROVE  OneWindow'
<1>0. Uploaders = {"daemon"} /\ "daemon" \in Uploaders
  BY DEF Uploaders
<1>1. job'["daemon"].pc # "idle" => job'["daemon"].window = Retention
  <2>1. IdleJob.pc = "idle" /\ NewJob(daemon.ts, Retention).window = Retention
    BY DEF IdleJob, NewJob
  <2> QED BY <1>0, <2>1, StepJobs, WindowStays DEF OneWindow
<1>2. ASSUME NEW r \in wire', r.op = "prune" PROVE r.arg = Retention
  <2>1. CASE r \in wire
    BY <1>2, <2>1 DEF OneWindow
  <2>2. CASE r \in Sent("daemon")
    <3>1. job["daemon"].pc = "prune" /\ r = Delete(job["daemon"].window)
      BY <1>0, <1>2, <2>2, SentIs, RequestFields
    <3> QED BY <3>1, RequestFields DEF OneWindow
  <2> QED BY <1>0, <2>1, <2>2, StepWire
<1>3. cut'["daemon"] <= 0 \/ cut'["daemon"] <= today' - Retention
  <2>0. /\ today \in Int /\ today' \in Int /\ today <= today' /\ Retention \in Int
        /\ cut["daemon"] \in Int
        /\ cut["daemon"] <= 0 \/ cut["daemon"] <= today - Retention
    BY <1>0, BoundsAssumption, TimePasses DEF TypeOK, OneWindow
  <2>1. ASSUME NEW w \in Int, CutBy("daemon", w)
        PROVE  cut'["daemon"] = cut["daemon"] \/ cut'["daemon"] = today - Retention
    <3>1. w = Retention
      BY <1>0, <2>1 DEF CutBy, OneWindow
    <3> QED BY <2>1, <3>1 DEF CutBy
  <2>2. \/ cut'["daemon"] = cut["daemon"] \/ cut'["daemon"] = 0
        \/ cut'["daemon"] = today - Retention
    BY <1>0, <2>1, StepCut
  <2> QED BY <2>0, <2>2
<1> QED BY <1>1, <1>2, <1>3 DEF OneWindow

LEMMA ScanStep ==
    ASSUME TypeOK, TypeOK', DatesInOrder, Sealed, ScanIsCurrent, OneWindow,
           [Next]_vars, Cli = {}, Oneshot = {}
    PROVE  ScanIsCurrent'
<1>0. /\ "daemon" \in Uploaders
      /\ job["daemon"].today \in Int /\ job["daemon"].today <= today
      /\ today \in Int /\ Retention \in Int
  <2>1. "daemon" \in Uploaders
    BY DEF Uploaders
  <2> QED BY <2>1, BoundsAssumption
          DEF TypeOK, JobState, Days, DatesInOrder, JobsInOrder
<1> SUFFICES ASSUME job'["daemon"].pc \in {"list"} \cup Uploading, NEW d \in Days,
                    InRetention(d, today', Retention), d < job'["daemon"].today, HasRows(d)'
             PROVE  d \in job'["daemon"].days
  BY DEF ScanIsCurrent
<1>1. d \in Int /\ InRetention(d, today, Retention)
  BY TimePasses DEF Days
<1>2. d < job["daemon"].today => HasRows(d)
  BY SealedRows DEF HasRows
<1>3. CASE /\ job["daemon"].pc \in {"list"} \cup Uploading
           /\ job'["daemon"].today = job["daemon"].today
           /\ job'["daemon"].days = job["daemon"].days
  BY <1>1, <1>2, <1>3 DEF ScanIsCurrent
<1>4. CASE /\ job'["daemon"].today = job["daemon"].today
           /\ job["daemon"].pc = "scan"
           /\ job'["daemon"].days =
                 ClosedDaysWithData(job["daemon"].today, job["daemon"].window)
  <2>0. job["daemon"].window = Retention
    BY <1>4 DEF OneWindow
  <2>1. InRetention(d, job["daemon"].today, Retention)
    BY <1>0, <1>1 DEF InRetention
  <2> QED BY <1>2, <1>4, <2>0, <2>1 DEF ClosedDaysWithData, IsClosed
<1>5. /\ IdleJob.pc \notin {"list"} \cup Uploading
      /\ NewJob(daemon.ts, Retention).pc \notin {"list"} \cup Uploading
  BY DEF IdleJob, NewJob, Uploading
<1> QED BY <1>0, <1>3, <1>4, <1>5, StepJobs, JobEffect

(* With the daemon alone, a run that has ended has left no date of its     *)
(* window with rows and without objects: runs only fill gaps, but they     *)
(* fill them all (archive_sync.py:49).                                     *)
THEOREM NoGapIsLeft ==
    ASSUME Cli = {}, Oneshot = {}
    PROVE  Spec => []RunLeavesNoGap
<1>1. Init => DatesInOrder /\ Sealed /\ AccountedFor /\ ScanIsCurrent /\ OneWindow
  BY DEF Init, DatesInOrder, DaemonInOrder, JobsInOrder, WireInOrder, OnlyClosedDaysStored,
         IdleJob, NoDay, Uploaders, AccountedFor, Uploading, Sealed,
         ArchivedDayComplete, ScanIsCurrent, OneWindow
<1>2. /\ TypeOK /\ TypeOK' /\ DatesInOrder /\ Sealed /\ AccountedFor
      /\ ScanIsCurrent /\ OneWindow /\ [Next]_vars
      => DatesInOrder' /\ Sealed' /\ AccountedFor' /\ ScanIsCurrent' /\ OneWindow'
  BY OrderStep, SealStep, AccountStep, ScanStep, WindowStep
<1>3. TypeOK /\ AccountedFor /\ ScanIsCurrent /\ OneWindow => RunLeavesNoGap
  <2> SUFFICES ASSUME TypeOK, AccountedFor, ScanIsCurrent, OneWindow,
                      job["daemon"].pc = "done",
                      NEW d \in Days, NEW t \in Tables, today - Retention <= d,
                      d < job["daemon"].today, \E s \in Tables : db[d][s] > 0
               PROVE  board[d][t] # Absent
    BY DEF RunLeavesNoGap
  <2>1. /\ d \in Int /\ 0 <= d /\ today \in Int /\ Retention \in Int
        /\ "daemon" \in Uploaders /\ cut["daemon"] \in Int
    BY BoundsAssumption DEF TypeOK, Uploaders, Days
  <2>2. InRetention(d, today, Retention) /\ HasRows(d)
    BY <2>1 DEF InRetention, HasRows
  <2>3. d \in job["daemon"].days
    BY <2>2 DEF ScanIsCurrent, Uploading
  <2>4. cut["daemon"] <= d
    BY <2>1 DEF OneWindow
  <2> QED BY <2>1, <2>3, <2>4 DEF AccountedFor, Uploading
<1> QED BY <1>1, <1>2, <1>3, TypeCorrect, PTL DEF Spec

LEMMA StepRuns ==
    ASSUME TypeOK, [Next]_vars
    PROVE  /\ runs' = runs \/ runs' = runs + 1
           /\ \A d \in Days : runOf'[d] = runOf[d] \/ runOf'[d] = runs
<1>1. runs' = runs \/ runs' = runs + 1
  BY DEF Next, vars, host, NextDay, BecomeHealthy, DaemonStart, StartRun, Tick,
         BeginTick, TickFails, WriteTick, PushOk, PushFails, MaybeRun, DaemonExit,
         Arrive, CliStart, JobStep, JobFails, Scan, List, Dump, Send, DumpMeta, SendMeta,
         PruneBoard, OnceBegin, OnceWrite, OnceFails
<1>2. \A d \in Days : runOf'[d] = runOf[d] \/ runOf'[d] = runs
  <2>1. CASE WriteTick
    BY <2>1 DEF WriteTick, TypeOK
  <2> QED BY <2>1
          DEF Next, vars, host, NextDay, BecomeHealthy, DaemonStart, StartRun, Tick,
              BeginTick, TickFails, PushOk, PushFails, MaybeRun, DaemonExit, Arrive,
              CliStart, JobStep, JobFails, Scan, List, Dump, Send, DumpMeta,
              SendMeta, PruneBoard, OnceBegin, OnceWrite, OnceFails
<1> QED BY <1>1, <1>2

(* The META object gets older only by a late arrival, which is noted, and  *)
(* newer or noted as such until a run refreshes it.                        *)
LEMMA StepMeta ==
    ASSUME TypeOK, [Next]_vars, ~overtaken'
    PROVE  \/ meta' \in Int /\ meta <= meta' /\ ~overtaken
           \/ \E u \in Uploaders : SendMeta(u)
<1>0. meta \in Int
  BY DEF TypeOK, Absent
<1>1. CASE meta' = meta /\ overtaken' = overtaken
  BY <1>0, <1>1
<1>2. CASE Arrive
  <2>1. PICK r \in wire :
          Taken(r) /\ overtaken' = (overtaken \/ (r.op = "meta" /\ r.arg < meta))
    BY <1>2 DEF Arrive, Taken
  <2>2. r.arg \in Int
    <3>1. r \in Requests
      BY DEF TypeOK
    <3> QED BY <3>1, RequestTypes
  <2>3. ~overtaken /\ ~(r.op = "meta" /\ r.arg < meta)
    BY <2>1
  <2>4. CASE StoreMeta(r)
    <3>1. r.op = "meta" /\ meta' = r.arg
      BY <2>4 DEF StoreMeta
    <3> QED BY <1>0, <2>2, <2>3, <3>1
  <2>5. CASE Store(r) \/ Prune(r)
    BY <1>0, <2>3, <2>5 DEF Store, Prune
  <2> QED BY <2>1, <2>4, <2>5 DEF Taken
<1>3. \/ meta' = meta /\ overtaken' = overtaken
      \/ Arrive \/ \E u \in Uploaders : SendMeta(u)
  BY DEF Next, vars, cloud, NextDay, BecomeHealthy, DaemonStart, StartRun, Tick,
         BeginTick, TickFails, WriteTick, PushOk, PushFails, MaybeRun, DaemonExit,
         CliStart, JobStep, JobFails, CutShort, Scan, List, Dump, Send, DumpMeta,
         PruneBoard, Store, Prune, OnceBegin, OnceWrite, OnceFails
<1> QED BY <1>1, <1>2, <1>3

LEMMA MetaStep ==
    ASSUME TypeOK, TypeOK', DatesInOrder, Sealed, MetaIsFresh, [Next]_vars,
           Cli = {}, Oneshot = {}
    PROVE  MetaIsFresh'
<1>0. /\ Uploaders = {"daemon"} /\ "daemon" \in Uploaders
      /\ runs \in Int /\ \A d \in Days : runOf[d] \in Int /\ runOf'[d] \in Int
      /\ "gpu_sample" \in Tables
  BY DEF Uploaders, TypeOK, Tables
<1>1. \A d \in Days : runOf'[d] <= runs'
  BY <1>0, StepRuns DEF MetaIsFresh
(* Outside "send", the dates on the board or on their way are dates that   *)
(* were there.                                                             *)
<1>2. ASSUME job["daemon"].pc # "send", NEW n, Covered(n)
      PROVE  \A d \in Days : board'[d]["gpu_sample"] # Absent \/ OnItsWay(d)'
                                => runOf'[d] <= n
  <2> SUFFICES ASSUME NEW d \in Days,
                      board'[d]["gpu_sample"] # Absent \/ OnItsWay(d)'
               PROVE  runOf'[d] <= n
    OBVIOUS
  <2>1. ASSUME board'[d]["gpu_sample"] # Absent
        PROVE  board[d]["gpu_sample"] # Absent \/ OnItsWay(d)
    <3>1. CASE LateWrite(d, "gpu_sample")
      BY <3>1 DEF LateWrite, PutFor, OnItsWay
    <3> QED BY <1>0, <1>2, <2>1, <3>1, StepWrites DEF StaysOrAges, Written
  <2>2. ASSUME OnItsWay(d)' PROVE OnItsWay(d)
    <3>1. PICK r \in wire' : r.op = "put" /\ r.pair[1] = d
      BY <2>2 DEF OnItsWay
    <3>2. r \notin Sent("daemon")
      BY <1>0, <1>2, <3>1, SentIs, RequestFields
    <3>3. r \in wire
      BY <1>0, <3>2, StepWire
    <3> QED BY <3>1, <3>3 DEF OnItsWay
  <2>3. board[d]["gpu_sample"] # Absent \/ OnItsWay(d)
    BY <2>1, <2>2
  <2>4. runOf'[d] = runOf[d]
    BY <1>0, <2>3, SealedRows
  <2> QED BY <1>2, <2>3, <2>4 DEF Covered
<1>3. job'["daemon"].pc = "sendMeta" =>
        \A d \in Days : board'[d]["gpu_sample"] # Absent \/ OnItsWay(d)'
                            => runOf'[d] <= job'["daemon"].data
  <2>1. CASE job'["daemon"] = job["daemon"]
    BY <1>2, <2>1 DEF MetaIsFresh
  <2>2. CASE DumpMeta("daemon") /\ job'["daemon"].data = runs
    BY <2>2 DEF DumpMeta, host, MetaIsFresh
  <2>3. IdleJob.pc # "sendMeta" /\ NewJob(daemon.ts, Retention).pc # "sendMeta"
    BY DEF IdleJob, NewJob
  <2> QED BY <1>0, <2>1, <2>2, <2>3, StepJobs, JobEffect
<1>4. ASSUME job'["daemon"].pc \in {"prune", "done"}, ~overtaken'
      PROVE  \A d \in Days : board'[d]["gpu_sample"] # Absent \/ OnItsWay(d)'
                                => runOf'[d] <= meta'
  <2>1. CASE job["daemon"].pc \in {"prune", "done"}
    <3>1. \A u \in Uploaders : ~SendMeta(u)
      BY <1>0, <2>1 DEF SendMeta
    <3>2. meta' \in Int /\ meta <= meta' /\ ~overtaken
      BY <1>4, <3>1, StepMeta
    <3>3. Covered(meta)
      BY <2>1, <3>2 DEF MetaIsFresh
    <3>4. meta \in Int
      BY DEF TypeOK, Absent
    <3> QED BY <1>0, <1>2, <2>1, <3>2, <3>3, <3>4
  <2>2. CASE SendMeta("daemon")
    <3>1. job["daemon"].pc = "sendMeta" /\ meta' = job["daemon"].data
      BY <2>2, RequestFields DEF SendMeta, StoreMeta
    <3> QED BY <1>2, <3>1 DEF MetaIsFresh
  <2>3. IdleJob.pc \notin {"prune", "done"}
        /\ NewJob(daemon.ts, Retention).pc \notin {"prune", "done"}
    BY DEF IdleJob, NewJob
  <2> QED BY <1>0, <1>4, <2>1, <2>2, <2>3, StepJobs, JobEffect
<1> QED BY <1>1, <1>3, <1>4 DEF MetaIsFresh, Covered

(* With the daemon alone, once a run has refreshed META it covers the      *)
(* daemon_run rows that every stored day refers to, up to the next run or  *)
(* a late upload of an older META: the rows of a stored day never come to  *)
(* refer to a newer daemon_run row (archive.py:26).                        *)
THEOREM MetaIsCurrent ==
    ASSUME Cli = {}, Oneshot = {}
    PROVE  Spec => []MetaCoversArchive
<1>1. Init => DatesInOrder /\ Sealed /\ MetaIsFresh
  BY DEF Init, DatesInOrder, DaemonInOrder, JobsInOrder, WireInOrder, OnlyClosedDaysStored,
         IdleJob, NoDay, Uploaders, Sealed, ArchivedDayComplete, MetaIsFresh
<1>2. /\ TypeOK /\ TypeOK' /\ DatesInOrder /\ Sealed /\ MetaIsFresh /\ [Next]_vars
      => DatesInOrder' /\ Sealed' /\ MetaIsFresh'
  BY OrderStep, SealStep, MetaStep
<1>3. MetaIsFresh => MetaCoversArchive
  BY DEF MetaIsFresh, Covered, MetaCoversArchive
<1> QED BY <1>1, <1>2, <1>3, TypeCorrect, PTL DEF Spec
=============================================================================
