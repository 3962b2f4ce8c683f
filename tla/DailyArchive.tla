---------------------------- MODULE DailyArchive ----------------------------
(***************************************************************************)
(* The raw-history archive of `gua daemon --cloud`: the sampling loop that *)
(* commits rows and calls the on_tick hook, the once-a-day archive thread  *)
(* (cloud/archive_sync.py, cloud/archive.py), the `gua sync-archive`       *)
(* command that runs the same upload with a window of its own,             *)
(* `gua sync-once` as a second writer of the same database, and the GUA    *)
(* Board, which is external.  A request whose sender has given up or died  *)
(* may reach the board later, among the requests of later runs.            *)
(*                                                                         *)
(* Time is the UTC date.  Rows are counted, not listed: the database only  *)
(* ever gains rows, so the number of rows in a dump tells which rows it    *)
(* misses.                                                                 *)
(***************************************************************************)
EXTENDS Integers, FiniteSets

CONSTANTS
    MaxDay,      \* bound: the last date the clock reaches
    MaxRows,     \* bound: commits with rows per date
    LastRows,    \* bound: as MaxRows, of the last date (no run uploads it)
    MaxStarts,   \* bound: starts of the daemon process
    MaxWire,     \* bound: abandoned requests that are still under way
    Retention,   \* DEFAULT_RETENTION_DAYS, the window of the daemon's runs
    CliWindows,  \* what `gua sync-archive --retention-days` may be given
    Cli,         \* `gua sync-archive` processes
    Oneshot,     \* `gua sync-once` processes, one snapshot each
    Snapshots    \* bound: the tables one snapshot may have rows for

ASSUME BoundsAssumption ==
    /\ MaxDay \in Nat /\ MaxRows \in Nat /\ LastRows \in Nat
    /\ MaxStarts \in Nat /\ MaxWire \in Nat
    /\ Retention \in Nat /\ CliWindows \subseteq Int
    /\ "daemon" \notin Cli

Days      == 0 .. MaxDay
Tables    == {"gpu_sample", "proc_sample"}
Uploaders == {"daemon"} \cup Cli
NoDay     == -1      \* last_day is None
NoPair    == <<>>    \* of a request that is about no object
Absent    == -1      \* the board holds no such object

(* Processes only ever appear with GPUs, and a host whose GPUs have all    *)
(* gone has no rows.                                                       *)
ASSUME SnapshotsAssumption == Snapshots \subseteq {{}, {"gpu_sample"}, Tables}

VARIABLES
    today,     \* the UTC date, as datetime.now(UTC) reads it
    db,        \* db[d][t]: rows of table t whose ts falls on date d
    runs,      \* rows of daemon_run
    runOf,     \* runOf[d]: newest daemon_run row the rows of d refer to
    daemon,    \* main thread: pc, the ts of the tick, _last_day; starts counts
    once,      \* once[w]: a sync-once process: pc and observed_at
    job,       \* job[u]: one execution of sync_archive_once
    board,     \* board[d][t]: rows in the stored object, or Absent
    meta,      \* daemon_run rows in the stored META object, or Absent
    wire,      \* requests whose sender gave up or died, still to reach the board
    healthy,   \* TRUE once host, network and board have stopped failing
    cut,       \* history: cut[u]: dates before it were pruned since u's listing
    overtaken  \* history: a late META has replaced a newer one

host  == <<db, runs, runOf>>
cloud == <<board, meta, wire, cut, overtaken>>
vars  == <<today, host, daemon, once, job, cloud, healthy>>

-----------------------------------------------------------------------------
(* The calendar.                                                           *)

TodayIsClosed(d, now) == d <= now       \* mutant: today is archived too
IsClosed(d, now)     == d < now
InRetention(d, now, w) == d >= now - w
HasRows(d)           == \E t \in Tables : db[d][t] > 0

(* mutant: only the day that has just closed, no backfill                  *)
YesterdayWithData(now, w) == {d \in Days : d = now - 1 /\ HasRows(d)}

(* closed_days_with_data: closed dates inside the window w with rows in    *)
(* either table.                                                           *)
ClosedDaysWithData(now, w) ==
    {d \in Days : IsClosed(d, now) /\ InRetention(d, now, w) /\ HasRows(d)}

(* sorted(days), then ARCHIVE_TABLES in order                              *)
Before(p, q) ==
    \/ p[1] < q[1]
    \/ p[1] = q[1] /\ p[2] = "gpu_sample" /\ q[2] = "proc_sample"

FirstOf(todo, p) == p \in todo /\ \A q \in todo : q = p \/ Before(p, q)

(* mutant: a date with any stored object counts as done                    *)
MissingDays(days, stored) ==
    {d \in days : \A t \in Tables : <<d, t>> \notin stored} \X Tables

(* The (day, table) pairs the run has to upload, given what is stored.     *)
Missing(days, stored) == (days \X Tables) \ stored

Stored == {p \in Days \X Tables : board[p[1]][p[2]] # Absent}

-----------------------------------------------------------------------------
IdleJob ==
    [pc |-> "idle", today |-> 0, window |-> 0, days |-> {}, todo |-> {}, data |-> 0]

Alive(u) == job[u].pc \notin {"idle", "done"}

Init ==
    /\ today = 0
    /\ db = [d \in Days |-> [t \in Tables |-> 0]]
    /\ runs = 0
    /\ runOf = [d \in Days |-> 0]
    /\ daemon = [pc |-> "down", ts |-> NoDay, lastDay |-> NoDay, starts |-> 0]
    /\ once = [w \in Oneshot |-> [pc |-> "new", ts |-> NoDay]]
    /\ job = [u \in Uploaders |-> IdleJob]
    /\ board = [d \in Days |-> [t \in Tables |-> Absent]]
    /\ meta = Absent /\ wire = {}
    /\ healthy = FALSE
    /\ cut = [u \in Uploaders |-> 0] /\ overtaken = FALSE

NextDay ==
    /\ today < MaxDay
    /\ today' = today + 1
    /\ UNCHANGED <<host, daemon, once, job, cloud, healthy>>

BecomeHealthy ==
    /\ ~healthy
    /\ healthy' = TRUE
    /\ UNCHANGED <<today, host, daemon, once, job, cloud>>

-----------------------------------------------------------------------------
(* The daemon's main thread.                                               *)

DaemonStart ==
    /\ daemon.pc = "down"
    /\ daemon.starts < MaxStarts \/ healthy
    /\ daemon' = [daemon EXCEPT !.pc = "boot", !.starts = @ + 1]
    /\ UNCHANGED <<today, host, once, job, cloud, healthy>>

(* start_daemon_run, once per process, before the first tick               *)
StartRun ==
    /\ daemon.pc = "boot"
    /\ runs' = runs + 1
    /\ daemon' = [daemon EXCEPT !.pc = "sleep"]
    /\ UNCHANGED <<today, db, runOf, once, job, cloud, healthy>>

(* the tick's ts is read before collect and used by every later step       *)
BeginTick ==
    /\ daemon.pc = "sleep"
    /\ daemon' = [daemon EXCEPT !.pc = "collect", !.ts = today]
    /\ UNCHANGED <<today, host, once, job, cloud, healthy>>

EndTick == daemon' = [daemon EXCEPT !.pc = "sleep", !.ts = NoDay]

(* collect raises, or write_snapshot rolls back                            *)
TickFails ==
    /\ daemon.pc = "collect" /\ ~healthy
    /\ EndTick
    /\ UNCHANGED <<today, host, once, job, cloud, healthy>>

(* write_snapshot: one transaction, all of it dated d                      *)
Commit(d, snap) ==
    /\ \A t \in snap : db[d][t] < (IF d = MaxDay THEN LastRows ELSE MaxRows)
    /\ db' = [db EXCEPT ![d] =
                [t \in Tables |-> IF t \in snap THEN @[t] + 1 ELSE @[t]]]

WriteTick ==
    /\ daemon.pc = "collect"
    /\ \E snap \in Snapshots :
        /\ Commit(daemon.ts, snap)
        /\ runOf' = IF snap = {} THEN runOf
                                ELSE [runOf EXCEPT ![daemon.ts] = runs]
    /\ daemon' = [daemon EXCEPT !.pc = "push"]
    /\ UNCHANGED <<today, runs, once, job, cloud, healthy>>

(* on_tick: push_snapshot first; when it raises, maybe_run is not reached  *)
PushOk ==
    /\ daemon.pc = "push"
    /\ daemon' = [daemon EXCEPT !.pc = "gate"]
    /\ UNCHANGED <<today, host, once, job, cloud, healthy>>

PushFails ==
    /\ daemon.pc = "push"
    /\ ~healthy
    /\ EndTick
    /\ UNCHANGED <<today, host, once, job, cloud, healthy>>

NewJob(day, w) == [IdleJob EXCEPT !.pc = "scan", !.today = day, !.window = w]

(* mutant: no is_alive check                                               *)
MaybeRunTwice ==
    /\ daemon.pc = "gate"
    /\ IF daemon.ts = daemon.lastDay
       THEN EndTick /\ job' = job
       ELSE /\ daemon' = [daemon EXCEPT !.pc = "sleep", !.ts = NoDay,
                                       !.lastDay = daemon.ts]
            /\ job' = [job EXCEPT !["daemon"] = NewJob(daemon.ts, Retention)]
    /\ UNCHANGED <<today, host, once, cloud, healthy>>

(* mutant: the gate reads the clock where the run gets the tick's date     *)
MaybeRunByClock ==
    /\ daemon.pc = "gate"
    /\ IF today = daemon.lastDay \/ Alive("daemon")
       THEN EndTick /\ job' = job
       ELSE /\ daemon' = [daemon EXCEPT !.pc = "sleep", !.ts = NoDay,
                                       !.lastDay = today]
            /\ job' = [job EXCEPT !["daemon"] = NewJob(daemon.ts, Retention)]
    /\ UNCHANGED <<today, host, once, cloud, healthy>>

(* DailyArchiveScheduler.maybe_run(ts.date())                              *)
MaybeRun ==
    /\ daemon.pc = "gate"
    /\ IF daemon.ts = daemon.lastDay \/ Alive("daemon")
       THEN EndTick /\ job' = job
       ELSE /\ daemon' = [daemon EXCEPT !.pc = "sleep", !.ts = NoDay,
                                       !.lastDay = daemon.ts]
            /\ job' = [job EXCEPT !["daemon"] = NewJob(daemon.ts, Retention)]
    /\ UNCHANGED <<today, host, once, cloud, healthy>>

-----------------------------------------------------------------------------
(* The board, and the requests it acts on.                                 *)

Put(p, n)  == [op |-> "put", pair |-> p, arg |-> n]
PutMeta(n) == [op |-> "meta", pair |-> NoPair, arg |-> n]
Delete(w)  == [op |-> "prune", pair |-> NoPair, arg |-> w]

Store(r) ==
    /\ r.op = "put"
    /\ board' = [board EXCEPT ![r.pair[1]][r.pair[2]] = r.arg]
    /\ UNCHANGED <<meta, cut>>

StoreMeta(r) ==
    /\ r.op = "meta"
    /\ meta' = r.arg
    /\ UNCHANGED <<board, cut>>

(* Objects older than the window go; META_DATE has no age and stays.       *)
Prune(r) ==
    /\ r.op = "prune"
    /\ board' = [d \in Days |-> IF InRetention(d, today, r.arg) THEN board[d]
                                ELSE [t \in Tables |-> Absent]]
    /\ cut' = [u \in Uploaders |-> IF cut[u] < today - r.arg THEN today - r.arg ELSE cut[u]]
    /\ UNCHANGED meta

(* What a run that is waiting for an answer has asked for.                 *)
Sent(u) ==
    CASE job[u].pc = "send" ->
            {Put(p, job[u].data) : p \in {q \in job[u].todo : FirstOf(job[u].todo, q)}}
      [] job[u].pc = "sendMeta" -> {PutMeta(job[u].data)}
      [] job[u].pc = "prune" -> {Delete(job[u].window)}
      [] OTHER -> {}

(* A run is cut short.  What it has asked for may still reach the board:   *)
(* at once, the answer being lost, or after other runs' requests.          *)
CutShort(u) ==
    /\ job' = [job EXCEPT ![u] = IdleJob]
    /\ \/ wire' = wire
       \/ \E r \in Sent(u) : Cardinality(wire) < MaxWire /\ wire' = wire \cup {r}
    /\ UNCHANGED <<board, meta, cut, overtaken>>

Arrive ==
    /\ \E r \in wire :
        /\ Store(r) \/ StoreMeta(r) \/ Prune(r)
        /\ wire' = wire \ {r}
        /\ overtaken' = (overtaken \/ (r.op = "meta" /\ r.arg < meta))
    /\ UNCHANGED <<today, host, daemon, once, job, healthy>>

-----------------------------------------------------------------------------
(* The process ends: `gua stop`, a crash, or start_daemon_run raising.  Its *)
(* archive thread is a daemon thread and dies with it, whatever it was     *)
(* doing.                                                                  *)
DaemonExit ==
    /\ daemon.pc # "down" /\ ~healthy
    /\ daemon' = [daemon EXCEPT !.pc = "down", !.ts = NoDay, !.lastDay = NoDay]
    /\ CutShort("daemon")
    /\ UNCHANGED <<today, host, once, healthy>>

-----------------------------------------------------------------------------
(* sync_archive_once, by the daemon's thread or by `gua sync-archive`.     *)

CliStart(u) ==
    /\ ~Alive(u)
    /\ \E w \in CliWindows : job' = [job EXCEPT ![u] = NewJob(today, w)]
    /\ UNCHANGED <<today, host, daemon, once, cloud, healthy>>

Scan(u) ==
    /\ job[u].pc = "scan"
    /\ job' = [job EXCEPT ![u].pc = "list",
                          ![u].days = ClosedDaysWithData(job[u].today, job[u].window)]
    /\ UNCHANGED <<today, host, daemon, once, cloud, healthy>>

List(u) ==
    /\ job[u].pc = "list"
    /\ job' = [job EXCEPT ![u].pc = "dump",
                          ![u].todo = Missing(job[u].days, Stored)]
    /\ cut' = [cut EXCEPT ![u] = 0]
    /\ UNCHANGED <<today, host, daemon, once, board, meta, wire, overtaken, healthy>>

(* dump_day_csv_gz reads the rows; put_archive then sends what it read     *)
Dump(u) ==
    /\ job[u].pc = "dump"
    /\ \E p \in job[u].todo :
        /\ FirstOf(job[u].todo, p)
        /\ job' = [job EXCEPT ![u].pc = "send", ![u].data = db[p[1]][p[2]]]
    /\ UNCHANGED <<today, host, daemon, once, cloud, healthy>>

(* mutant: a put that fails is swallowed and the loop goes on              *)
SendBestEffort(u) ==
    /\ job[u].pc = "send"
    /\ \E p \in job[u].todo :
        /\ FirstOf(job[u].todo, p)
        /\ Store(Put(p, job[u].data)) \/ UNCHANGED <<board, meta, cut>>
        /\ job' = [job EXCEPT ![u].pc = "dump", ![u].todo = @ \ {p}, ![u].data = 0]
    /\ UNCHANGED <<today, host, daemon, once, wire, overtaken, healthy>>

Send(u) ==
    /\ job[u].pc = "send"
    /\ \E p \in job[u].todo :
        /\ FirstOf(job[u].todo, p)
        /\ Store(Put(p, job[u].data))
        /\ job' = [job EXCEPT ![u].pc = "dump", ![u].todo = @ \ {p}, ![u].data = 0]
    /\ UNCHANGED <<today, host, daemon, once, wire, overtaken, healthy>>

DumpMeta(u) ==
    /\ job[u].pc = "dump" /\ job[u].todo = {}
    /\ job' = [job EXCEPT ![u].pc = "sendMeta", ![u].data = runs]
    /\ UNCHANGED <<today, host, daemon, once, cloud, healthy>>

(* mutant: META is skipped when stored, like the daily objects             *)
SendMetaOnce(u) ==
    /\ job[u].pc = "sendMeta"
    /\ meta' = IF meta = Absent THEN job[u].data ELSE meta
    /\ overtaken' = FALSE
    /\ job' = [job EXCEPT ![u].pc = "prune", ![u].data = 0]
    /\ UNCHANGED <<today, host, daemon, once, board, wire, cut, healthy>>

SendMeta(u) ==
    /\ job[u].pc = "sendMeta"
    /\ StoreMeta(PutMeta(job[u].data))
    /\ overtaken' = FALSE
    /\ job' = [job EXCEPT ![u].pc = "prune", ![u].data = 0]
    /\ UNCHANGED <<today, host, daemon, once, wire, healthy>>

PruneBoard(u) ==
    /\ job[u].pc = "prune"
    /\ Prune(Delete(job[u].window))
    /\ job' = [job EXCEPT ![u].pc = "done"]
    /\ UNCHANGED <<today, host, daemon, once, wire, overtaken, healthy>>

(* A read or a request fails or times out: the exception ends the run and  *)
(* nothing retries it today.                                               *)
JobFails(u) ==
    /\ Alive(u) /\ ~healthy
    /\ CutShort(u)
    /\ UNCHANGED <<today, host, daemon, once, healthy>>

-----------------------------------------------------------------------------
(* gua sync-once: observed_at first, the commit later, no daemon_run row.  *)

OnceBegin(w) ==
    /\ once[w].pc = "new"
    /\ once' = [once EXCEPT ![w] = [pc |-> "collect", ts |-> today]]
    /\ UNCHANGED <<today, host, daemon, job, cloud, healthy>>

OnceWrite(w) ==
    /\ once[w].pc = "collect"
    /\ \E snap \in Snapshots : Commit(once[w].ts, snap)
    /\ once' = [once EXCEPT ![w] = [pc |-> "end", ts |-> NoDay]]
    /\ UNCHANGED <<today, runs, runOf, daemon, job, cloud, healthy>>

OnceFails(w) ==
    /\ once[w].pc = "collect"
    /\ once' = [once EXCEPT ![w] = [pc |-> "end", ts |-> NoDay]]
    /\ UNCHANGED <<today, host, daemon, job, cloud, healthy>>

-----------------------------------------------------------------------------
Tick == BeginTick \/ TickFails \/ WriteTick \/ PushOk \/ PushFails \/ MaybeRun

JobStep(u) == \/ Scan(u) \/ List(u) \/ Dump(u) \/ Send(u)
              \/ DumpMeta(u) \/ SendMeta(u) \/ PruneBoard(u)

Next ==
    \/ NextDay \/ BecomeHealthy \/ Arrive
    \/ DaemonStart \/ StartRun \/ Tick \/ DaemonExit
    \/ \E u \in Cli : CliStart(u)
    \/ \E u \in Uploaders : JobStep(u) \/ JobFails(u)
    \/ \E w \in Oneshot : OnceBegin(w) \/ OnceWrite(w) \/ OnceFails(w)

Spec == Init /\ [][Next]_vars

(* Every call ends (sqlite waits 5 s, urlopen times out), the process      *)
(* supervisor or the operator restarts a dead daemon, and time passes.     *)
FairSpec ==
    /\ Spec
    /\ WF_vars(NextDay) /\ WF_vars(DaemonStart) /\ WF_vars(StartRun \/ Tick)
    /\ \A u \in Uploaders : WF_vars(JobStep(u))

-----------------------------------------------------------------------------
JobPc == {"idle", "scan", "list", "dump", "send", "sendMeta", "prune", "done"}

DaemonState == [pc : {"down", "boot", "sleep", "collect", "push", "gate"},
                ts : Days \cup {NoDay}, lastDay : Days \cup {NoDay}, starts : Nat]

JobState == [pc : JobPc, today : Days, window : Int, days : SUBSET Days,
             todo : SUBSET (Days \X Tables), data : Nat]

Requests ==
    [op : {"put"}, pair : Days \X Tables, arg : Nat]
    \cup [op : {"meta"}, pair : {NoPair}, arg : Nat]
    \cup [op : {"prune"}, pair : {NoPair}, arg : Int]

OnceState == [pc : {"new", "collect", "end"}, ts : Days \cup {NoDay}]

Archives == [Days -> [Tables -> Nat \cup {Absent}]]

(* The values each variable takes; a tick has a ts exactly while it lasts. *)
TypeOK ==
    /\ today \in Days
    /\ db \in [Days -> [Tables -> Nat]]
    /\ runs \in Nat /\ runOf \in [Days -> Nat]
    /\ daemon \in DaemonState
    /\ daemon.ts # NoDay <=> daemon.pc \in {"collect", "push", "gate"}
    /\ once \in [Oneshot -> OnceState]
    /\ job \in [Uploaders -> JobState]
    /\ board \in Archives /\ meta \in Nat \cup {Absent}
    /\ wire \subseteq Requests
    /\ cut \in [Uploaders -> Int]
    /\ healthy \in BOOLEAN /\ overtaken \in BOOLEAN

(* An object on the board holds every row its date has and will ever have: *)
(* no row reaches a date that has been uploaded, whatever the tick in      *)
(* flight at midnight, a restart, or a run cut short.  True of the daemon  *)
(* on its own (archive.py:45, "only closed days are archived").            *)
ArchivedDayComplete ==
    \A d \in Days, t \in Tables :
        board[d][t] # Absent => d < today /\ board[d][t] = db[d][t]

(* Nothing of a date that is still open is ever on the board (README:216,  *)
(* "Only closed days are sent"), whichever process uploads and however     *)
(* long its run lasts.                                                     *)
OnlyClosedDaysStored ==
    \A d \in Days, t \in Tables : board[d][t] # Absent => d < today

(* Dates never run ahead of the clock, a tick is dated no earlier than the *)
(* last launch, and a run only concerns dates before its own (with         *)
(* OnlyClosedDaysStored, an inductive invariant).                          *)
DaemonInOrder ==
    /\ daemon.lastDay <= today /\ daemon.ts <= today
    /\ daemon.ts # NoDay => daemon.lastDay <= daemon.ts

JobsInOrder ==
    \A u \in Uploaders :
        /\ job[u].today <= today
        /\ \A d \in job[u].days : d < job[u].today
        /\ job[u].todo \subseteq job[u].days \X Tables
        /\ job[u].pc = "scan" => job[u].todo = {}

WireInOrder == \A r \in wire : r.op = "put" => r.pair[1] < today

DatesInOrder ==
    DaemonInOrder /\ JobsInOrder /\ WireInOrder /\ OnlyClosedDaysStored

(* With the daemon alone, a tick in flight is later than every date that   *)
(* is or is about to be uploaded, so what has been read, sent or stored is *)
(* all there will be (the other part of the inductive invariant).          *)
Sealed ==
    /\ daemon.ts # NoDay =>
        /\ job["daemon"].today <= daemon.ts
        /\ \A d \in Days, t \in Tables : board[d][t] # Absent => d < daemon.ts
    /\ job["daemon"].pc = "send" =>
        \A p \in job["daemon"].todo :
            FirstOf(job["daemon"].todo, p) => job["daemon"].data = db[p[1]][p[2]]
    /\ \A r \in wire : r.op = "put" =>
        /\ daemon.ts # NoDay => r.pair[1] < daemon.ts
        /\ r.arg = db[r.pair[1]][r.pair[2]]
    /\ ArchivedDayComplete

(* A run that reaches its end leaves no hole: every date of its window     *)
(* with rows in the database has both objects on the board, those an       *)
(* earlier, interrupted run left half uploaded included (archive_sync.py   *)
(* :49, "re-running only fills gaps").                                     *)
RunLeavesNoGap ==
    job["daemon"].pc = "done" =>
        \A d \in Days, t \in Tables :
            /\ today - Retention <= d /\ d < job["daemon"].today
            /\ \E s \in Tables : db[d][s] > 0
            => board[d][t] # Absent

(* The same promise when sync-archive and sync-once run beside the daemon, *)
(* each run with a window of its own: what a run saw when it scanned the   *)
(* database is on the board at its end, whoever uploaded it, except the    *)
(* dates that somebody's prune has removed since it listed the board.      *)
ScannedDaysStored ==
    \A u \in Uploaders : job[u].pc = "done" =>
        \A d \in job[u].days, t \in Tables :
            cut[u] <= d => board[d][t] # Absent

(* A report rebuilt from the board finds the sampling interval of every    *)
(* row: once the run has refreshed META, it covers the daemon_run rows     *)
(* that the stored days refer to (archive.py:26-31), unless an abandoned   *)
(* upload has come in since and put an older META back.                    *)
MetaCoversArchive ==
    job["daemon"].pc \in {"prune", "done"} /\ ~overtaken =>
        \A d \in Days : board[d]["gpu_sample"] # Absent => runOf[d] <= meta

(* The scheduler starts a run only when its thread is not running, and     *)
(* only for a later date than the last one: at most one run per UTC day    *)
(* and process (archive_sync.py:71).                                       *)
Launch == job["daemon"].pc # "scan" /\ job'["daemon"].pc = "scan"

LaunchSafely ==
    [][Launch => ~Alive("daemon") /\ daemon.lastDay < daemon'.lastDay]_vars

(* Whatever failed before, once nothing fails any more the window that     *)
(* ends at the last date is completely on the board and stays so: failed   *)
(* and interrupted runs are made up for on a later day.                    *)
HistoryRebuildable ==
    <>(healthy /\ today < MaxDay) =>
        <>[](\A d \in Days, t \in Tables :
                /\ MaxDay - Retention <= d /\ d < MaxDay
                /\ \E s \in Tables : db[d][s] > 0
                => board[d][t] = db[d][t])

(* Once nothing fails any more, the daemon launches a run on every day     *)
(* that follows and finishes it (README:216, "once on startup and once per *)
(* UTC day"), stated of the last day.                                      *)
RunsEveryDay ==
    <>(healthy /\ today < MaxDay) =>
        <>(job["daemon"].pc = "done" /\ job["daemon"].today = MaxDay)
=============================================================================
