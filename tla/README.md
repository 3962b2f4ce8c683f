# gpu-usage-audit in TLA+

`gpu-usage-audit` (`gua`) samples the GPUs of one Linux host through NVML, keeps
the history in a local SQLite database, reports on it, and can mirror it to an
external service, the GUA Board. This directory holds TLA+ specifications of the
parts of it whose correctness depends on order, time, failure or concurrency, the
TLC configurations that check them, and proofs that TLAPS checks.

Paths below are relative to `src/gpu_usage_audit/` unless they start with
`README`, `docs/` or `tests/`. `PROJECT.json` maps every definition to the lines
it models.

    tlc -config archive_daemon.cfg MCDailyArchive.tla
    tlapm DailyArchive_proofs.tla

## The system

| Component | State it keeps | Operations | Interacts with |
| --- | --- | --- | --- |
| Daemon loop (`daemon.py`) | next slot, tick count, run id, stop event | wait, tick (collect, resolve, classify, write), hook | tier, tracker, store, cloud hook, signals |
| Daemon process (`__main__.py`, `_cmd_daemon`) | stop event, two or three threads, tier, connection | start-up, spawn util thread, run loop, join, close | supervisor, SIGTERM, all of the above |
| Live usage state (`usage_state.py`) | per GPU a counter of low readings and "seen active" | apply (tick), classify (sync-once) | daemon loop, sync-once |
| SQLite store (`db.py`) | the database file | open and migrate, start run, write snapshot | every command, several processes at once |
| Daily archive (`cloud/archive*.py`) | last day, one thread; what the board stores | maybe_run, scan, list, dump, put, META, prune | store, board, `sync-archive` |
| Util stream (`cloud/ws_client.py`) | connection, backoff | connect, send, wait, reconnect | tier, stop event, board |
| Background commands (`__main__.py`) | PID file | start, status, stop | the daemon process, the kernel's process numbers |
| Board client (`cloud/client.py`) | none | claim, post, list, put, prune | board |
| Enrolment (`cloud/config.py`, `__main__.py`) | `cloud.json`, the one-time token at the board | enrol, load, save | board |
| sync-once (`__main__.py`) | none | collect, write, push, error heartbeat | tier, store, board |
| Snapshot payload (`cloud/snapshot.py`) | none | build, collection status | client |
| NVML tier (`nvml.py`, `tier.py`) | NVML handle, unreadable process lists | probe, collect, collect_util, close | daemon, util thread |
| Report, classifier, summary (`report.py`, `classify.py`, `summarize.py`) | none | queries over the history | store |
| Live view (`live_view.py`, `live_buffer.py`) | ring buffer per GPU | append, draw | tier |
| Identity, doctor, paths, rendering | none | lookups, formatting | - |

### What is hard, and what makes each part correct

*Daemon loop.* A tick may last longer than the interval, the clock moves between
any two readings of it, and the stop event is set at any moment. Correct: the
database does not swell after a stall, missed slots are not pumped back to back,
a stop is obeyed after at most one more tick.

*Daemon process.* Two threads share the tier and the event; any call may fail or
block; SIGTERM arrives at any step, even before its handler exists; a supervisor
restarts what fails. Correct: the tier is closed after the last user, a SIGTERM
ends the process, an exit that nobody asked for is one the supervisor
restarts, and sampling goes on after any number of failures.

*Usage state.* A bounded memory (a number and a bit per GPU) has to say what the
last `W` readings would, although GPUs and process lists come and go between
readings and the memory dies with the process. Correct: it refines the window.

*Store.* Every process that opens the file migrates it, statement by statement,
while others read and write it, and may be killed between two statements.
Correct: no row is lost, values stay, an opened connection can write.

*Archive.* The date is read at three different places; a run lasts long enough
to see days close; objects already stored are never looked at again; uploads
fail before or after the board has acted, or are acted on when other runs have long
sent theirs; `sync-archive` brings a window of its own, and prunes with it. Correct:
only closed days are stored, what is stored is complete, what failed is made up for,
and META covers it all.

*Background commands.* A PID file without a lock, a kernel that reuses process
numbers, commands that are cut off, daemons that die in between. Correct: no
signal to a stranger, no daemon that `stop` cannot find, no false "not running".

*A snapshot's way.* The daemon and `sync-once` each take a snapshot from NVML,
classify it, write it and push it; any device, list, transaction or request may fail,
and a request may be handled after its sender has given up. Correct: what is stored
and sent is what NVML said, nothing is on the board that the history lacks, what
could not be read is told, and what `sync-once` answers is so.

*Enrolment.* A token that can be used once, a file written under a shared
temporary name, runs that overlap or are killed. Correct: other commands find no
configuration or a whole one, readable by its owner alone; an answer says truly
what became of the token.

*Totals.* Rows are turned back into time, each with the interval of the run that wrote
it. Correct: two samplers' rows are not mixed,
SQL's verdict is Python's, and a window never holds more hours than it is long, but
for what its ends and the restarts add.

*Report.* Some ten SELECTs outside any transaction, with ticks committed between
them and not always in the order of their timestamps; sessions are put together
from the rows of one, the loads of another and the clock of a third. Correct: a
verdict belongs to one tick, a session is a run of ticks, what is listed as held
now or as past is.

The full list of hazards, each at its line, is in `PROJECT.json`.

## Modules

| Module | Models | Abstraction |
| --- | --- | --- |
| `TickSchedule` | when `run_daemon` starts a tick | time is a natural number; a tick is two steps with any time between |
| `DaemonProcess` | `_cmd_daemon`, the loop, `stream_util`, SIGTERM, restarts | one program counter per thread; data left out |
| `UsageWindow` | abstract: what a live usage state means | the whole history of readings |
| `UsageState` | `UsageStateTracker`, refines `UsageWindow` | a reading is low or high |
| `GpuHours` | the rows a schedule of ticks writes, `classify`, `summarize`, and the aggregates of the report; composed with `TickSchedule` | a timestamp is an instant and a rank; fractions are counts |
| `LocalFirst` | abstract: what the agent promises of its two stores | sets of snapshots |
| `Sampling` | `_tick` with its cloud hook, `sync-once`, `NVMLTier.collect`, the payload; contains `UsageState`, refines `LocalFirst` and `UsageWindow` | a load is low or high, a device has its memory total or not |
| `Enrolment` | `gua enroll`, `cloud/config.py` | a configuration is its token; names lead to numbered files |
| `SchemaMigration` | `open_db` and the row writes after it | a table is its younger columns, one NOT NULL flag and a set of rows |
| `DailyArchive` | loop, scheduler, upload run, `sync-archive`, `sync-once`, board | time is the UTC date, rows are counted |
| `Lifecycle` | `gua daemon/start`, `status`, `stop` | a process is its number and its phase |
| `Report` | `build_action_report` | a tick is its loads and process rows; time in minutes |
| `MC*` | the same modules as TLC instantiates them | symmetry sets |
| `*_proofs` | theorems | |

How they fit together: `DaemonProcess` is the process in which the loop of
`TickSchedule` runs, and treats a tick as one step that succeeds or fails. The
content of a tick is `Sampling`: what is collected, labelled by the tracker of
`UsageState` (which it extends, so that the tracker's steps are taken by ticks,
commands and restarts), written and pushed. `GpuHours` extends `TickSchedule` in the
other direction: each tick of the schedule leaves its rows, and the report's totals are
evaluated over them. `DailyArchive` follows the rows of a tick by date, and the other half of
the cloud hook. `Enrolment` makes the configuration without which the hook and
`sync-once` have no board. `Lifecycle`
sees the same process from outside, as a number. `SchemaMigration` is what stands
behind the `OpenDb` step of `DaemonProcess` and behind every other command's. `Report`
reads the ticks whose commits `DailyArchive` counts. Apart from those two, the modules
share no variables: the interface between them is a handful of facts that each
states on its own side (a tick carries the date it read at its start; a tick
either commits as a whole or not at all; a process that is asked to stop ends).

### How state and actions correspond to the code

*TickSchedule.* `now` is `time.monotonic()`, `nextAt` is `next_at`, `n` the tick
counter; `Check`, `Begin`, `TickEnds`, `Delay`, `Wait` are the lines of the `while`
loop in order (`daemon.py:156-198`), with `Elapse` and `SetStop` possible between
any two of them. `interval` is the one this process was given, `since` the instant it
entered its loop; `since`, `last`, `prev`, `begun` and `late` are history.

*DaemonProcess.* `main` follows `_cmd_daemon` from the database check
and the cloud configuration (`Load`, which may refuse either with exit status 2) over `Probe`, `OpenDb`, `Install` (signal handlers), `Spawn` (the util
thread) to the loop, and out through `SetStop`, `Join`, `Count`, `CloseTier`,
`Return`; a failure outside a `try` takes `unwind` (the `finally` that closes
the tier) to exit status 1. `util` follows `stream_util`; `dead` is a thread that
an unexpected exception ended. `Terminate` is SIGTERM: before `Install` it simply
ends the process, later `HandleSignal` sets the event whenever the interpreter gets
to it - in the main thread, so that it is `stuck` when that thread itself has just taken
the event's lock (`HoldsEvent`). `Launch` is systemd's `Restart=on-failure`. `Join` may return with the
thread alive only while that thread is in a call that can last longer than five
seconds; `expired` remembers that it did.

*UsageState.* `streak` and `seen` are the tracker's two structures, `Apply` is
`apply`, `Classify` is `classify_usage_states`, `NewTracker` a restart.
`readings` is history and exists for the refinement only. It has no run of its own:
`Sampling` drives it.

*Sampling.* `at[p]` is where the daemon's tick or the command stands: `idle`,
`write` (a classified snapshot in hand), `push`, `await` (a request sent).
`Take` is `collect`, identity resolution and classification, which touch nothing
another process sees; `CollectFails` an exception out of it, with the lists that failed
before it left in the tier's `last_process_list_unavailable`; `ProbeFails` the error heartbeat.
`Write` and `WriteFails` are the transaction, `PayloadInvalid`, `Send`, `Answered`,
`PushFails` (`CloudError`) and `TimesOut` (a bare `TimeoutError`) the push. `wire` holds
requests whose fate is open: `Accept` takes one whether or not its sender still waits.
`unread[p]` is the tier's list, not the snapshot's, as in the code. `taken`
is history: what NVML said at each moment. Timestamps are taken to be unique.

*GpuHours.* `SampleBegins` and `SampleEnds` are `Begin` and `TickEnds` of
`TickSchedule` with what they do to the tables, `Relaunch` another daemon with an
interval of its own, which its first tick records in `daemonRun` (`StartRun`), `OnceWrites` the transaction of a `sync-once`, whose
`run_id` is NULL. `Own`, `Since`, `Weight`, `Owned` are the joins and weights of the
SQL; `Total`, `Classify`, `Summarize` are the Python.

*Enrolment.* `pc[e]` is the next step of run `e` in `_cmd_gua_enroll` and
`save_cloud_config`. `config` and `temp` are the files the two names lead to; a
file is a number into `files`, so that a run keeps writing to the file it
opened when another run has renamed it. `claimant` is the board's memory of tokens.
`Load` is what the next command finds.

*SchemaMigration.* `tables` is what the file holds, `conn[p].pc` the statement
that connection `p` is about to execute. Python's `sqlite3` with
`isolation_level="DEFERRED"` opens a transaction before an INSERT only, so all
DDL before the rebuild's INSERT commits alone even inside `with conn:`; the
INSERT, the DROP and the CREATE INDEX after it are one step (`Copy`). A statement
that would fail raises out of `open_db` (`Raise`). `Die` is a kill or a busy timeout.

*DailyArchive.* `daemon.ts` is the timestamp `run_daemon` reads before `_tick`,
`daemon.lastDay` is `_last_day`, `job[u]` is one execution of `sync_archive_once`, by
the thread or by `sync-archive`, with the `window` it scans and prunes by - `Retention` for
the daemon, any of `CliWindows` for the command; `board` and `meta` are external. `MaybeRun`,
`Scan`, `List`, `Dump`, `Send`, `DumpMeta`, `SendMeta`, `PruneBoard` are the calls in
order; `JobFails` and `DaemonExit` let any of them fail. The request the run was waiting on
(`Sent`) is then lost, or in `wire`, from where the board may take it (`Arrive`) at once, after
requests of later runs, or never. `cut[u]` is history: the date before which a prune, of
whatever window, has cleared the board since `u` listed it. `overtaken` tells that a late
META has replaced a newer one.

*Lifecycle.* `file` is what `_read_pid` would return, `proc[p]` who has number
`p`, `cmd[s]` where the command of terminal `s` is and which number it has read.

*Report.* `db` is the set of committed ticks, `Commit` is `write_snapshot` by whichever
sampler, the `Read...` actions are the SELECTs in the order of `build_action_report`,
and `utilMap`, `rows`, `latest`, `holder`, `gpus` and `newest` what each returned. `Ordered`
is `ORDER BY`, `Chunks` the pairwise scan of `load_sessions` over it. `Ticks` allows any timestamp not yet used:
`sync-once` and the daemon choose theirs before they collect, so that an older one
may be committed later.

## Runs

All bounds are constants of the cfg files. Every module states its `TypeOK`; where a
run does not list it, adding it to the cfg as an INVARIANT checks it as well.

| Run | Question | Bounds | Size |
| --- | --- | --- | --- |
| `tick_schedule` | `RateBounded`: at most one tick per interval elapsed since the process entered its loop, plus one. `NoBurst`: no three ticks within one interval. `StopIsPrompt`: one late tick at most. `TotalsMatchTheLog`: the totals of the SQL, by card and by user, agree with `classify` and `summarize`. `HoursWithinTime`: hours are time. | intervals 1 and 3, 5 instants; 3 cards, 3 snapshots written, one of them by `sync-once`; 2 daemons | 424,885 states |
| `process` | `TierClosedUnused`, `NoSampleAfterClose`, `CleanExitIsAsked`; `StopEnds`, `KeepsSampling`, `StreamResumes` under fairness | 2 processes with failures and any number after them; backoff limit 4 | 3,168 states |
| `sampling` | `StoresMatchNvml`, `UnreadIsTold`, `LabelMatchesHistory`, `AnswerIsTrue`; the refinements `ImplementsLocalFirst` and `ImplementsWindow` | 2 cards, 3 snapshots, window 2, 2 daemons and any number of commands | 1,675,957 states |
| `enrolment` | `WholeOrAbsent`, `OwnerOnly`, `AnswersAreTrue`, `OnlyForceReplaces` | 3 runs, 2 tokens | 27,042 states |
| `store_migration` | `NothingDestroyed`, `UpgradeKeepsRows`, `OpenedWrites` | 2 connections, 4 calls of `open_db`, 1 old and 2 new rows, 5 old versions | 39,750 states |
| `report_reads` | `SessionsAreRuns` against a definition without the scan, `StatusIsOneTick`, `CurrentOncePerProcess`, `PastIsOver`, `HeldUnlessUnread` | 1 card, 1 process, 3 ticks in 6 minutes, 2 of them during a report | 1,720,295 states |
| `archive_daemon` | `ArchivedDayComplete`, `RunLeavesNoGap`, `MetaCoversArchive`, `LaunchSafely`; `HistoryRebuildable`, `RunsEveryDay` under fairness | 3 dates, 2 commits per date and table (none on the last date, which no run uploads), 1 failing process and any number after, 1 request that arrives late | 277,938 states |
| `archive_shared` | `OnlyClosedDaysStored`, `ScannedDaysStored` with `sync-archive` and `sync-once` | 3 dates, 1 commit per date and table (none on the last), one of each command at a time; the command's window is 1 day, the daemon's 2; 1 request that arrives late; a snapshot has rows for both tables or none; the daemon starts when failures are over | 2,261,182 states |
| `lifecycle_commands` | `NoStraySignal`, `DaemonIsNamed`, `NotRunningIsTrue` | 2 terminals, 3 numbers, 4 daemons | 162,956 states |

Why the bounds are enough. A stall over two slots, and a tick late by a part of an interval
before one that is on time, are all it takes to start ticks too close; five instants
hold five slots of the shorter interval, and two of the longer with a late tick in the
first. A database with runs of both intervals is what `README.md:38` is about: weighing all rows
with the newest run's interval is the mutant of `HoursWithinTime`. Three cards of one snapshot are held by two processes together,
just under both thresholds, and at work; rows of two runs and of none may
bear one timestamp. `HoursWithinTime` is tight: without the interval for the slot the window cuts
the same run finds it violated. Three snapshots with a window of two let
one reading leave the window, with a card absent, without its compute list, without
its graphics list, or without its memory total while the other is not; a
late request needs two snapshots, a restart between two ticks the third. Three enrolments
are two that get in each other's way and one that finds what they left. The migration's hazards need one process that is
cut off or overtaken by another, and a later call that finds the result: two
connections and four calls; a third would only repeat the second. Three dates are the least with a
day that closes while a run for an earlier one is going, and the least at which windows
of 1 and 2 days differ: the command's prune then deletes what the daemon's finished run has
stored. Snapshots without processes, which leave one of the two tables of a date empty, are in
`archive_daemon`. One request under way is enough to meet a later run's; a third window or a second
request would be theirs over again. Two commits per date
separate an object that lacks a row from one that lacks none. Two terminals and
three numbers let one start race another, with a number left for a stranger. Nothing
in a session depends on another process or card; three ticks make two
sessions with a gap at, below or above each threshold, and two of them
may come while the report is built.

`DaemonStart` after `healthy` and `Launch` after `healthy` are not bounded, so
liveness is not an artefact of a start counter that has run out.
`CHECK_DEADLOCK FALSE` stands only where the system really stops: the loop after
its stop event, the process after SIGTERM, the store after the last call.

### Runs that end in a counterexample

Each checks one sentence of the repository against what the code does.

* `archive_late_row` - "complete past days are dumped ... so reports can be rebuilt
  from raw" (`cloud/archive.py:3`). A `sync-once` reads its timestamp before
  midnight and commits after the daemon has uploaded that date. Objects that exist
  are skipped (`cloud/archive_sync.py:58`), so the row never reaches the board. The
  same happens when `sync-archive` is started just after midnight, while a
  tick of the daemon that began before is still collecting: its date comes from the
  clock, not from the tick.
* `process_custom_db` - the systemd unit of `README.md:180` with
  `Restart=on-failure`. The unit names a database of its own; the first restart
  finds it, refuses to touch it and exits with 2, and so does every later one.
* `store_crash` - "legacy rows keep their values" (`db.py:109`). Killed between the
  RENAME and the commit, the rebuild leaves the rows in `proc_sample_legacy`; the
  next `open_db` creates an empty `proc_sample`, sees nothing to rebuild and
  returns. The rows are in the file (`NothingDestroyed`, proved) and no code reads them.

Observations without a run.

`gua sync-archive --retention-days N` scans and prunes with its own `N`
(`__main__.py:398`, `cloud/archive_sync.py:51-64`), the daemon with 30 days. A smaller `N` deletes
from the board what a finished run of the daemon has stored and would keep; the daemon's next
run, a day later, uploads it again. `ScannedDaysStored` therefore excepts the dates that a
prune has reached since the run listed the board.

META is one object that every run replaces. An upload of it that timed out or died with its
process and reaches the board after a later run's puts an older one back (`overtaken`):
until the next run, stored days may refer to a `daemon_run` row that META lacks.

The SIGTERM handler calls `stop.set()` (`daemon.py:51`) in the main thread, which may just be
inside `wait()` or `set()` of the same event with its lock taken (`threading.Condition` over a
plain `Lock`). The handler then waits for the thread it has interrupted: the process stays, a second
SIGTERM cannot help it, and `gua stop` reports that it is still running. The window is some
instructions wide. `StopEnds` names the outcome (`stuck`) instead of excluding it.

The util stream "reconnects automatically" (`cloud/ws_client.py:4`), but one
`NVMLError` inside `collect_util` is neither `OSError` nor `WebSocketException`: the
thread ends for good (`util = "dead"` in `DaemonProcess`) and the daemon goes on without
it. `StreamResumes` is what remains true.

`cloud/config.py:4` calls the save an "atomic replace". Two runs that save at once share
`.cloud.json.tmp`: one may rename the file while the other is still writing to it, and
leave a text no command can read. `WholeOrAbsent` holds while no two save at once
(`overlap`). The comment at `__main__.py:483` wants the user told whenever the token is
gone; an `OSError` of the save is a traceback that says nothing of it.

A `TimeoutError` while an answer is awaited passes by every `except CloudError`
(`cloud/client.py:171`): `sync-once` ends in a traceback with its snapshot saved and,
perhaps, its request accepted. `LocalFirst` holds all the same.

The headline and the capacity call a card idle-held when the sum over all its
processes, graphics included, exceeds 100 MB (`report.py:51`); the present status when
the largest compute process does (`report.py:496`). A card two processes of 60 MB hold is
idle-held in one part of the report and free in the other.

Rows of `sync-once` have no run and are worth 30 s each (`LEGACY_INTERVAL_FALLBACK`),
however often the command is run: `HoursWithinTime` sets them apart. In the other
direction nothing is promised: ticks that failed or overran leave time that no row counts.

`host.last_seen` is the timestamp of the last commit, not the latest one: a `sync-once` that
commits after a younger tick sets it back (`db.py:246`).

A tick whose compute list could not be read has loads and no processes: the report shows its
cards as empty (`report.py:492`). Only `usage_state` tells, and the report does not read it.

The tracker starts empty with every process (`daemon.py:155`): the first labels after a
restart are judged without the history before it. `UsageWindow` forgets at a restart as well,
and `LabelMatchesHistory` speaks of the rows of one run.

`README.md:216` has the daemon archive "once on startup and once per UTC day".
`maybe_run` follows `push_snapshot` in one hook (`__main__.py:892`): on a host whose push
raises at every tick no run starts. `RunsEveryDay` holds once failures are over.

`load_sessions` takes the loads before the rows (`report.py:415`, `423`): a process
first seen in a tick committed in between has no reading, its average is 0
(`report.py:402`), and it is listed as holding a card idle while it computes.
`HeldUnlessUnread` says that this is the only way.

`report.py:582` lists a session as held now up to two minutes after its last row,
`report.py:588` lists cards as free by the newest tick: with ticks of 30 s a card
whose process has just ended is in both lists.

`docs/work-specs/0004-nvml-usage-classification.ko.md:55`
asks for `W` low readings before `idle_held`, while the tracker reports a resident
GPU it has never seen active as `idle_held` at once (`usage_state.py:51`). The
tests assert it (`tests/test_usage_state.py:67`), and `UsageWindow` states it: no high reading
among the last `W`, however few there are.

## Fairness

*DailyArchive.* Weak fairness of the clock (`NextDay`), of starting a daemon
that is down (the supervisor or the operator), of the main thread from its start on
(`StartRun \/ Tick`) and of a run's next step. `Arrive` is not fair: an abandoned request need
never reach the board. Every call behind them ends: SQLite waits at most five seconds, `urlopen`
has a timeout, the loop's wait has a delay. Failures are not fair in any way:
they may happen at every step until `BecomeHealthy`, which need not happen; the
properties start from `<>healthy`.

*DaemonProcess.* Weak fairness of `Launch`, of the main thread, of the signal
handler, and of the util thread's steps between its calls. None of the calls of the
util thread is assumed to return (connect, send, the closing handshake may
hang); where a property needs it, it says so in its own premise
(`StreamResumes`).

The other modules state safety only.

## Proofs

All theorems hold for every value of the constants that the named assumptions
allow. The assumptions only say that a bound is a natural number, that the window,
and the backoff limit are positive, that intervals are natural numbers, that cards, processes and the values
they take are finite in number, that markers such as `NoPid` are not numbers, and that
old and new rows differ. Every safety property of every passing run is a theorem.

*`Sampling_proofs`.* First the tracker alone: `TrackerIsSound` (`TrackerSound`, inductive
with the types) and `TrackerImplementsWindow` (`ImplementsWindow`). Under it the verdict over
the history is the label of the tracker, action by action; both readings of the
threshold (`streak >= Window`, never seen active) are needed when the history is
shorter than the window. Every step of `Sampling` is one of the tracker's or leaves it
alone (`StepIsTracked`), which gives `SamplingTrackerIsSound` and
`SamplingImplementsWindow`. `SamplingIsLocalFirst` (`ImplementsLocalFirst`), `StoresAreTrue`
(`StoresMatchNvml`), `UnreadIsAlwaysTold` (`UnreadIsTold`) and `AnswersAreTrue`
(`AnswerIsTrue`) rest on `SInv`: what a process has in hand is faithful to the entry of
`taken` it names, and is committed once it is past its write; the tier's list of
unread devices is still that of the snapshot in hand (the reason `UnreadIsTold` is not
inductive by itself: the hook asks the tier); a row or request is true to its entry; a
snapshot on the wire or on the board is in the history, and no two processes have
the same one in hand. The last is what makes a row of `LocalFirst` be kept only once.
`LabelsMatchHistory` (`LabelMatchesHistory`) ties the tracker to what was taken rather than
to its own steps: by `LInv` its structures are, card by card, a function of the readings
this daemon has taken since it started (how many low ones end the list, whether any was
high), and the labels of a snapshot in hand are those of the list up to it, which
later snapshots, of either process, do not change (`LabelsStay`).

*`GpuHours_proofs`.* The schedule alone: `SamplingRate` (`RateBounded`), `NoBurstEver`
(`NoBurst`), `PromptStop` (`StopIsPrompt`). `RateBounded` is not inductive: the
number of ticks is tied to the clock only by way of the slots. `SlotsInOrder` adds
that `n` ended ticks put `nextAt` at `since + n * interval` or later, that `nextAt` never
exceeds `now + interval`, and that the tick before last lies an interval before
the slot; `LateOnce` that a tick past its check has not been counted late. The composition
with the tables keeps all three, restarts included (`SamplingRateOfRuns`, `NoBurstInRuns`,
`RunsStop`): a relaunch begins the loop again with another interval and leaves the clock, so
that the rate is counted from `since`, the start of the process that ticks.
`HoursAreTime` (`HoursWithinTime`) needs what the rate says of any window and any choice of
runs, not only of the whole. `Paced` states it: what runs `Q` left since `c` fills, each row
weighed with the interval recorded for its run, no more than the time from `c` to the next slot and
the interval of each run of `Q`; when the run at work is not one of `Q`, the longest of their
intervals stands for the slot it was stopped before. `TotalsAreTheLog` (`TotalsMatchTheLog`) relates sums over joined and
grouped rows to sums over the verdicts the samplers reached. A sum is turned into a number of
elements - the `Units` of its terms, whatever order they are added in - and two sums
agree because a bijection takes one set of terms to the other; `Ranked` (run and timestamp
tell any two snapshots apart) is what makes the join of the code such a bijection.

*`Enrolment_proofs`.* `ConfigIsWhole` (`WholeOrAbsent`), `SecretStays` (`OwnerOnly`),
`EnrolmentAnswers` (`AnswersAreTrue`), `NoneReplacedUnasked` (`OnlyForceReplaces`). The
invariant follows a run through its steps: past its claim it is the one the board knows, and
until it ends it has told nothing (`Claimed`); a text that was ever written is that of a run
which got so far (`Written`); a run that saves alone knows which file each of the two names
leads to, what it holds and from which step on only the owner reads it (`SavesAlone`); what
has the final name is whole and private, and was installed by a run that may not have told
so yet (`Installed`). The last two hold while no two runs save at once (`overlap`).

*`DaemonProcess_proofs`.* `TierClosesLast` (`TierClosedUnused`), `NoLateSample`
(`NoSampleAfterClose`), `CleanExit` (`CleanExitIsAsked`), `ProcessTypes`. The strengthening
says where in the main thread the stop event is set, that the util thread cannot start
before `Spawn`, and that a set event was asked for or stands after the
loop; then a thread that comes out of a late call meets the event before it can
sample.

*`Lifecycle_proofs`.* `SignalsAreChecked` (`NoStraySignal`): a stop about to signal
has read a number that was managed at its check, and is `lost` if a stranger has it
now. `OneNamedDaemon` (`DaemonIsNamed`) and `NotRunningIsHonest` (`NotRunningIsTrue`) rest on
an invariant of calm executions: at most one command is busy, and at each of its
phases either the file names the only live daemon, or the command itself holds its
number, or there is none.

*`SchemaMigration_proofs`.* `RowsStayInTheFile` (`NothingDestroyed`), with the
types and the fact that a table that is not there has no rows. RENAME is the
only statement that could overwrite a table and fails when the name is taken;
DROP follows the copy in one transaction. `UpgradesAreLossless`
(`UpgradeKeepsRows`) and `OpenConnectionsWrite` (`OpenedWrites`) rest on `CleanInv`:
while calls neither overlap nor are cut off, at most one is in progress, and each
of its statements finds what the ones before it have seen to - which columns
are there, which is due next, where the rows are - and can therefore not fail.

*`Report_proofs`.* `StatusOfOneTick` (`StatusIsOneTick`): timestamps are unique, the one
chosen stays that of a committed tick, and the holders kept between two SELECTs
are those of that tick whatever is committed. `SessionsRebuilt` (`SessionsAreRuns`) says
that the loop of `load_sessions` finds exactly the runs of a process on a card - the
maximal sets of its ticks without a gap above the threshold - for any number of ticks,
rows and processes, and any ticks committed between its two SELECTs. The argument, in the order of the
code: the rows of `ORDER BY` are the only list of them in that order (`OneEach`, `InOrder`);
a left fold over a list is a chain of values, one for each prefix (`Scan`); the
loop keeps the invariant `Split`, by which its chunks cut the prefix read so far into
adjacent stretches, broken just where the process or card changes or the gap is too large;
a stretch is then a run and every run is a stretch (`Cut`), and the session made of it has
the first and the last timestamp, the ticks and the average of the run. `ActedOnOnce` (`CurrentOncePerProcess`) follows because two runs of one process on one
card cannot both reach the newest tick, `PastWasteIsOver` (`PastIsOver`) because the window of "now" is as wide as
the gap that ends a run or narrower (`Slack <= Gap`), and `HeldWasSeenIdle`
(`HeldUnlessUnread`) because an average below the threshold needs a reading below it, or none at
all: the sum of readings is again the number of `Units`. That a set of timestamps has a largest follows from
`MaxTime` by the well-foundedness of the naturals. `ReportTypes` closes the types.

*`DailyArchive_proofs`.* `TypeCorrect`, `OpenDaysStayLocal` (`OnlyClosedDaysStored`) and
`ScansAreStored` (`ScannedDaysStored`), for any number of `sync-archive` and `sync-once`
processes; so is `OneRunPerDay` (`LaunchSafely`). `UploadsAreComplete`
(`ArchivedDayComplete`), `NoGapIsLeft` (`RunLeavesNoGap`) and `MetaIsCurrent`
(`MetaCoversArchive`) are about the daemon alone and say so (`Cli = {}`, `Oneshot = {}`):
the run `archive_late_row` shows what another process does to the first. `OnlyClosedDaysStored` needs `DatesInOrder`: a run
concerns days before its own date, which is not after today. `ArchivedDayComplete` needs
`Sealed` besides: a tick in flight carries a date no earlier than the run's, so that no row is
committed to a date that has been read or stored, and what a run has read and not
yet sent, or an abandoned request still carries, is all its date will have. `ScannedDaysStored` is the end of `AccountedFor`:
from the moment a run has listed the board, each object of its dates is there or still to
be uploaded, or before `cut`: every prune that takes an object, of this run or another, in time or
late, moves `cut` past its date (`CutGrows`), and nothing else takes one. `RunLeavesNoGap` follows
because with the daemon alone every prune, late ones included, has its own window
(`OneWindow`), which the clock has moved past only dates that are out of it. It also needs `ScanIsCurrent`: no closed date
gets its first row after the scan. `MetaCoversArchive` needs `MetaIsFresh`: the run
rows in hand, and then those on the board unless `overtaken`, are all that the dates refer to
which are stored or whose upload may still arrive.

Where a proof leans on a property of the environment it is an assumption of the model
listed below ("Assumed", under *Not modelled*), not of the proof.

Only model-checked:

* the liveness properties `StopEnds`, `KeepsSampling`, `StreamResumes`,
  `HistoryRebuildable` and `RunsEveryDay`: fairness is stated with ENABLED, which the
  prover cannot expand;
* the counterexamples of the three runs above, which are single behaviours;
* the type invariant of `Sampling`: that `NoSnap` is no snapshot is a fact about its
  value in the configuration that no assumption states. `SInv` has the shape of
  everything else it speaks of.

## Not modelled

Formatting and parsing (rendering, CSV, JSON, arguments, paths) and the release scripts
have no state that a step could break. The doctor reads the environment once and prints
advice. `gua top` appends samples to a `deque(maxlen)` per card in one thread and draws them:
the bound is the library's and nothing is kept or shared. The identity lookups are reads
of `/proc` and the passwd database that answer None on any failure. `FakeTier` is a
scenario for demonstrations.

Parts of modelled components that are left out: the columns `open_db` adds to `gpu_sample`,
the upserts of `host` and `gpu_device`, the heatmap by weekday and hour, the
clamping of readings in the payload, `_tail_text`. The GUA Board is external:
`DailyArchive` models it as the map its endpoints expose, `Sampling` as the set of
observations it accepted, `Enrolment` as its memory of tokens. The CSV and gzip encoding
of a dump is the set of rows it holds. What the board does with `olderThanDays <= 0`
(`--retention-days 0` or less) is not in this repository.

Assumed: reading a small file and renaming one are atomic; timestamps of one sampler
differ; the wall clock of the timestamps does not jump.

## Plan

In this order, the most important first; all but the last are done.

1. `DailyArchive` - what leaves the host must be complete.
2. `UsageWindow`, `UsageState` - what the live state means.
3. `TickSchedule` - when samples are taken.
4. `DaemonProcess` - threads, shutdown, restarts.
5. `Lifecycle` - the PID file.
6. `SchemaMigration` - the upgrade of the database, for `proc_sample`.
7. `Report` - sessions, present status, reads while ticks commit.
8. `LocalFirst`, `Sampling` - NVML to history and board, with the tracker inside.
9. `Enrolment` - the one-time token, the save of `cloud.json`, several runs.
10. `GpuHours` - rows, verdicts and hours, composed with the schedule.
11. Proofs of every safety property the runs check.
12. Left: a `SealedHistory` (a day is open, then sealed once and for all) that
    `DailyArchive` implements with the daemon alone.
