---------------------------- MODULE DaemonProcess ----------------------------
(***************************************************************************)
(* One `gua daemon --foreground --cloud` after another, as a supervisor    *)
(* restarts them: the main thread of _cmd_daemon (__main__.py) with the    *)
(* loop of run_daemon (daemon.py), the util stream thread of stream_util   *)
(* (cloud/ws_client.py), the stop event they share, SIGTERM, and the NVML  *)
(* tier both threads read and the main thread closes.                      *)
(*                                                                         *)
(* When a tick starts is TickSchedule's subject, the archive thread        *)
(* DailyArchive's; here time is only what lets a wait end.                 *)
(***************************************************************************)
EXTENDS Integers

CONSTANTS
    DefaultDb,  \* --db is left at its default
    MaxBackoff, \* max_backoff of stream_util, in units of backoff_start
    MaxStarts   \* bound: processes while things still fail

ASSUME ProcessAssumption ==
    /\ DefaultDb \in BOOLEAN
    /\ MaxBackoff \in Nat \ {0} /\ MaxStarts \in Nat

VARIABLES
    main,    \* where the main thread is; "down": no process, "stuck": for good
    exit,    \* how the last process ended
    starts,  \* processes started while things failed
    dbFile,  \* the database file exists
    runId,   \* run_id is set
    asked,   \* the operator has sent SIGTERM
    sig,     \* a SIGTERM waits for the main thread to run its handler
    stop,    \* the stop event
    tier,    \* the NVML tier: not initialized, open or closed
    util,    \* where the util thread is
    backoff, \* its next reconnect delay
    expired, \* history: join(timeout=5.0) gave up on the util thread
    healthy  \* host, NVML, database, cloud.json and network have stopped failing

process == <<exit, starts, dbFile, runId>>
signals == <<asked, sig>>
stream  == <<util, backoff>>
vars == <<main, process, signals, stop, tier, stream, expired, healthy>>

Alive     == main # "down"
Handler   == main = "spawn" \/ util # "none"   \* signal handlers are installed
Fails     == ~healthy
UtilEnded == util \in {"none", "done", "dead"}

Init ==
    /\ main = "down" /\ exit = "none" /\ starts = 0 /\ dbFile = FALSE /\ runId = FALSE
    /\ asked = FALSE /\ sig = FALSE /\ stop = FALSE
    /\ tier = "new" /\ util = "none" /\ backoff = 1
    /\ expired = FALSE /\ healthy = FALSE

BecomeHealthy ==
    /\ ~healthy
    /\ healthy' = TRUE
    /\ UNCHANGED <<main, process, signals, stop, tier, stream, expired>>

-----------------------------------------------------------------------------
(* The life of a process.                                                  *)

(* Restart=on-failure: a process that ended otherwise than by a clean exit *)
(* or by the operator's SIGTERM is started again.                          *)
Launch ==
    /\ main = "down" /\ exit # "ok" /\ ~asked
    /\ starts < MaxStarts \/ healthy
    /\ main' = "load"
    /\ starts' = IF healthy THEN starts ELSE starts + 1
    /\ exit' = "none" /\ runId' = FALSE
    /\ stop' = FALSE /\ tier' = "new" /\ util' = "none" /\ backoff' = 1
    /\ expired' = FALSE
    /\ UNCHANGED <<dbFile, signals, healthy>>

(* The process is gone, and with it the threads it did not wait for.       *)
Gone(how) ==
    /\ main' = "down" /\ exit' = how
    /\ util' = "none" /\ sig' = FALSE

Crash ==
    /\ Alive /\ Fails
    /\ Gone("crash")
    /\ UNCHANGED <<starts, dbFile, runId, asked, stop, tier, backoff, expired, healthy>>

(* SIGTERM: until install_signal_handlers it simply ends the process.      *)
Terminate ==
    /\ Alive /\ ~asked
    /\ asked' = TRUE
    /\ IF Handler
       THEN sig' = TRUE /\ UNCHANGED <<main, exit, util>>
       ELSE Gone("killed")
    /\ UNCHANGED <<starts, dbFile, runId, stop, tier, backoff, expired, healthy>>

(* stop.wait() and stop.set() of the main thread hold the event's lock for *)
(* moments; is_set() takes none.                                           *)
HoldsEvent == main \in {"wait", "setStop"}

(* The handler runs in the main thread, whatever it is doing: stop.set().  *)
(* Should that thread just hold the event's lock, which is not reentrant,  *)
(* it waits for itself.                                                    *)
HandleSignal ==
    /\ Alive /\ sig
    /\ sig' = FALSE
    /\ \/ stop' = TRUE /\ main' = main
       \/ HoldsEvent /\ main' = "stuck" /\ stop' = stop
    /\ UNCHANGED <<process, asked, tier, stream, expired, healthy>>

-----------------------------------------------------------------------------
(* _cmd_daemon up to run_daemon.                                           *)

Goto(from, to) == main = from /\ main' = to

(* mutant: the default database is refused as well                         *)
LoadRefusingAny ==
    /\ main = "load"
    /\ IF dbFile THEN Gone("refused")
                 ELSE main' = "probe" /\ UNCHANGED <<exit, util, sig>>
    /\ UNCHANGED <<starts, dbFile, runId, asked, stop, tier, backoff, expired, healthy>>

(* a database that exists, or a cloud.json that cannot be used: exit 2     *)
Load ==
    /\ main = "load"
    /\ \/ (dbFile => DefaultDb) /\ main' = "probe" /\ UNCHANGED <<exit, util, sig>>
       \/ (Fails \/ (dbFile /\ ~DefaultDb)) /\ Gone("refused")
    /\ UNCHANGED <<starts, dbFile, runId, asked, stop, tier, backoff, expired, healthy>>

Probe ==
    /\ main = "probe"
    /\ \/ main' = "openDb" /\ tier' = "open"
       \/ Fails /\ main' = "failed" /\ tier' = tier
    /\ UNCHANGED <<process, signals, stop, stream, expired, healthy>>

(* open_db creates the file first and may raise afterwards                 *)
OpenDb ==
    /\ main = "openDb"
    /\ \/ main' = "install" /\ dbFile' = TRUE
       \/ Fails /\ main' = "unwind" /\ dbFile' \in {dbFile, TRUE}
    /\ UNCHANGED <<exit, starts, runId, signals, stop, tier, stream, expired, healthy>>

Install ==
    /\ Goto("install", "spawn")
    /\ UNCHANGED <<process, signals, stop, tier, stream, expired, healthy>>

Spawn ==
    /\ Goto("spawn", "check")
    /\ util' = "top"
    /\ UNCHANGED <<process, signals, stop, tier, backoff, expired, healthy>>

-----------------------------------------------------------------------------
(* run_daemon.                                                             *)

Check ==
    /\ main = "check"
    /\ main' = IF stop THEN "setStop" ELSE IF runId THEN "tick" ELSE "run"
    /\ UNCHANGED <<process, signals, stop, tier, stream, expired, healthy>>

(* mutant: the error is logged and the loop left                           *)
StartRunQuietly ==
    /\ main = "run"
    /\ \/ main' = "tick" /\ runId' = TRUE
       \/ Fails /\ main' = "setStop" /\ runId' = runId
    /\ UNCHANGED <<exit, starts, dbFile, signals, stop, tier, stream, expired, healthy>>

(* start_daemon_run stands outside the try: its error leaves run_daemon    *)
StartRun ==
    /\ main = "run"
    /\ \/ main' = "tick" /\ runId' = TRUE
       \/ Fails /\ main' = "unwind" /\ runId' = runId
    /\ UNCHANGED <<exit, starts, dbFile, signals, stop, tier, stream, expired, healthy>>

(* collect, resolve, classify and write; any of them may raise             *)
Tick ==
    /\ \/ Goto("tick", "push")
       \/ Fails /\ Goto("tick", "wait")
    /\ UNCHANGED <<process, signals, stop, tier, stream, expired, healthy>>

(* the on_tick hook, whose errors _tick swallows                           *)
Push ==
    /\ Goto("push", "wait")
    /\ UNCHANGED <<process, signals, stop, tier, stream, expired, healthy>>

Wait ==
    /\ main = "wait"
    /\ main' = IF stop THEN "setStop" ELSE "check"
    /\ UNCHANGED <<process, signals, stop, tier, stream, expired, healthy>>

-----------------------------------------------------------------------------
(* _cmd_daemon after run_daemon.                                           *)

SetStop ==
    /\ Goto("setStop", "join")
    /\ stop' = TRUE
    /\ UNCHANGED <<process, signals, tier, stream, expired, healthy>>

(* The calls of the util thread that may last longer than the join.        *)
Blocking == {"connect", "sample", "send", "close"}

(* mutant: join() without a timeout                                        *)
JoinForever ==
    /\ main = "join" /\ UtilEnded
    /\ main' = "count"
    /\ UNCHANGED <<process, signals, stop, tier, stream, expired, healthy>>

(* mutant: the util thread is left to itself                               *)
JoinSkipped ==
    /\ Goto("join", "count")
    /\ UNCHANGED <<process, signals, stop, tier, stream, expired, healthy>>

Join ==
    /\ Goto("join", "count")
    /\ UtilEnded \/ util \in Blocking
    /\ expired' = ~UtilEnded
    /\ UNCHANGED <<process, signals, stop, tier, stream, healthy>>

(* SELECT COUNT, conn.close()                                              *)
Count ==
    /\ main = "count"
    /\ \/ main' = "close"
       \/ Fails /\ main' = "unwind"
    /\ UNCHANGED <<process, signals, stop, tier, stream, expired, healthy>>

CloseTier ==
    /\ \/ Goto("close", "return")
       \/ Goto("unwind", "failed")
    /\ tier' = "closed"
    /\ UNCHANGED <<process, signals, stop, stream, expired, healthy>>

Return ==
    /\ \/ main = "return" /\ Gone("ok")
       \/ main = "failed" /\ Gone("error")
    /\ UNCHANGED <<starts, dbFile, runId, asked, stop, tier, backoff, expired, healthy>>

-----------------------------------------------------------------------------
(* stream_util.                                                            *)

UtilStep(to) ==
    /\ Alive
    /\ util' = to
    /\ UNCHANGED <<main, process, signals, stop, tier, expired, healthy>>

UtilTop ==
    /\ util = "top"
    /\ UtilStep(IF stop THEN "done" ELSE "connect")
    /\ UNCHANGED backoff

Connect ==
    /\ util = "connect"
    /\ \/ UtilStep("ready") /\ backoff' = 1
       \/ Fails /\ UtilStep("lost") /\ backoff' = backoff

(* mutant: the inner loop does not look at the event                       *)
ReadyBlind ==
    /\ util = "ready"
    /\ UtilStep("sample")
    /\ UNCHANGED backoff

Ready ==
    /\ util = "ready"
    /\ UtilStep(IF stop THEN "close" ELSE "sample")
    /\ UNCHANGED backoff

(* An NVMLError is no OSError and no WebSocketException: it ends the       *)
(* thread.  So does the NVMLError of a tier that is closed.                *)
Sample ==
    /\ util = "sample"
    /\ \/ tier = "open" /\ UtilStep("send")
       \/ Fails /\ UtilStep("dead")
       \/ tier # "open" /\ UtilStep("dead")
    /\ UNCHANGED backoff

SendUtil ==
    /\ util = "send"
    /\ \/ UtilStep("pause")
       \/ Fails /\ UtilStep("lost")
    /\ UNCHANGED backoff

Pause ==
    /\ util = "pause" /\ main # "stuck"
    /\ UtilStep(IF stop THEN "close" ELSE "ready")
    /\ UNCHANGED backoff

(* the connection's __exit__: the closing handshake                        *)
Close ==
    /\ util = "close"
    /\ UtilStep("done")
    /\ UNCHANGED backoff

(* mutant: a lost stream is not taken up again                             *)
LostForGood ==
    /\ util = "lost"
    /\ UtilStep("done")
    /\ UNCHANGED backoff

(* stop.wait(backoff) ends with the event or with the delay                *)
Lost ==
    /\ util = "lost" /\ main # "stuck"
    /\ \/ stop /\ UtilStep("done") /\ backoff' = backoff
       \/ ~stop /\ UtilStep("top")
          /\ backoff' = IF 2 * backoff < MaxBackoff THEN 2 * backoff ELSE MaxBackoff

-----------------------------------------------------------------------------
Main == \/ Load \/ Probe \/ OpenDb \/ Install \/ Spawn
        \/ Check \/ StartRun \/ Tick \/ Push \/ Wait
        \/ SetStop \/ Join \/ Count \/ CloseTier \/ Return

Util == UtilTop \/ Connect \/ Ready \/ Sample \/ SendUtil \/ Pause \/ Close \/ Lost

Next == \/ BecomeHealthy
        \/ Launch \/ Crash \/ Terminate \/ HandleSignal
        \/ Main \/ Util

Spec == Init /\ [][Next]_vars

(* The supervisor restarts, and every call of the main thread ends: sqlite *)
(* waits 5 s, urlopen times out, join has its timeout.  The util thread is *)
(* scheduled between its calls; nothing is assumed of the calls.           *)
FairSpec ==
    /\ Spec
    /\ WF_vars(Launch) /\ WF_vars(Main) /\ WF_vars(HandleSignal)
    /\ WF_vars(UtilTop \/ Ready \/ Pause \/ Lost)

-----------------------------------------------------------------------------
(* The values each variable takes; the reconnect delay stays within its    *)
(* limit.                                                                  *)
TypeOK ==
    /\ main \in {"down", "load", "probe", "openDb", "install", "spawn", "check",
                 "run", "tick", "push", "wait", "setStop", "join", "count",
                 "close", "unwind", "return", "failed", "stuck"}
    /\ exit \in {"none", "ok", "refused", "error", "crash", "killed"}
    /\ starts \in Nat
    /\ {dbFile, runId, asked, sig, stop, expired, healthy} \subseteq BOOLEAN
    /\ tier \in {"new", "open", "closed"}
    /\ util \in {"none", "top", "connect", "ready", "sample", "send", "pause",
                 "close", "lost", "done", "dead"}
    /\ backoff \in 1 .. MaxBackoff

(* On the way out of a normal shutdown nvmlShutdown is called with the     *)
(* util thread finished, unless that thread sat in a call for the five     *)
(* seconds of the join (__main__.py:929-938).                              *)
TierClosedUnused ==
    main = "return" /\ ~expired => UtilEnded

(* Wherever the util thread is, it does not start sampling once a normal   *)
(* shutdown has closed the tier, however long the call it was in           *)
(* (ws_client.py:98-107).                                                  *)
NoSampleAfterClose ==
    [][util # "sample" /\ util' = "sample" => main # "return"]_vars

(* A process the operator has not asked to stop never ends cleanly: its    *)
(* exit status gets it restarted (README.md:180-182, Restart=on-failure).  *)
CleanExitIsAsked == exit = "ok" => asked

(* A SIGTERM ends the process, even with a util thread that never returns  *)
(* from a call (daemon.py:43-55, __main__.py:929-931), unless the handler  *)
(* comes upon the event's lock in the main thread's own hands.             *)
StopEnds == asked ~> main \in {"down", "stuck"}

(* Once nothing fails any more and as long as nobody stops it, the daemon  *)
(* keeps adding ticks to the local history, whatever failed before and     *)
(* whatever becomes of the stream (__main__.py:906-908).                   *)
KeepsSampling == <>healthy /\ []~asked => []<>(main = "push")

(* Under the same conditions the stream comes back from every loss of its  *)
(* connection, provided its calls end and NVML never failed under it: such *)
(* a process keeps its thread (ws_client.py:98-114).                       *)
StreamResumes ==
    <>healthy /\ []~asked /\ WF_vars(Util) /\ [](util # "dead")
        => []<>(util = "send")
=============================================================================
