------------------------------- MODULE Report -------------------------------
(***************************************************************************)
(* The action report (report.py): a sequence of SELECTs on a connection    *)
(* that holds no transaction, so that ticks are committed between any two  *)
(* of them, by the daemon and by sync-once.                                *)
(*                                                                         *)
(* A tick is one transaction of write_snapshot: a reading of every GPU it  *)
(* found and the processes on them.  Timestamps are chosen before a tick   *)
(* collects and committed after, so that ticks of two samplers may become  *)
(* visible out of order.  Time is in minutes.                              *)
(***************************************************************************)
EXTENDS Integers, FiniteSets, SequencesExt

CONSTANTS
    Gpus, Pids,
    Utils,        \* values of util_pct
    Mems,         \* values of mem_used_mb, 0 for an unknown one
    MaxTime,      \* the largest timestamp
    Cutoff,       \* start of the window
    ActiveUtil,   \* ACTIVE_UTIL
    MemFloor,     \* MEM_FLOOR_MB
    Gap,          \* SESSION_GAP
    Slack,        \* LIVE_SLACK
    NoTick,       \* MAX(ts) of no row, and the holder of a card without one
    MaxTicks,     \* bound: ticks in the database
    MaxMeanwhile  \* bound: ticks committed while a report is built

Times == 0 .. MaxTime
Kinds == {"compute", "graphics"}
ProcRow == [gpu : Gpus, pid : Pids, mem : Mems, kind : Kinds]

ASSUME ReportAssumption ==
    /\ MaxTime \in Nat /\ Utils \subseteq Nat /\ Mems \subseteq Nat
    /\ Cutoff \in Nat /\ ActiveUtil \in Nat /\ MemFloor \in Nat
    /\ Slack \in Nat /\ Gap \in Nat /\ Slack <= Gap
    /\ NoTick \notin Times /\ NoTick \notin Pids /\ NoTick \notin ProcRow

VARIABLES
    db,        \* the ticks committed, each with its rows
    pc,        \* the next statement of build_action_report
    utilMap,   \* util_map: (GPU, ts) -> util
    rows,      \* the compute rows of proc_sample
    latest,    \* _latest_ts in load_current_status
    holder,    \* procs: the largest compute process per GPU
    gpus,      \* the status lines of load_current_status
    newest,    \* _latest_ts in build_action_report
    meanwhile  \* ticks committed since the report began

vars == <<db, pc, utilMap, rows, latest, holder, gpus, newest, meanwhile>>

(* One row per GPU and process: collect() merges the two lists by pid.     *)
Ticks == {t \in [ts : Times, util : [Gpus -> Utils], procs : SUBSET ProcRow] :
            \A p, q \in t.procs : p.gpu = q.gpu /\ p.pid = q.pid => p = q}

InWindow == {t \in db : t.ts >= Cutoff}
Latest == IF InWindow = {} THEN NoTick ELSE Max({t.ts : t \in InWindow})
Compute(t) == {p \in t.procs : p.kind = "compute"}

-----------------------------------------------------------------------------
(* Sessions, from what the two SELECTs of load_sessions returned.          *)

RowsOf(g, p) == {r \in rows : r.gpu = g /\ r.pid = p}

(* mutant: a gap of exactly SESSION_GAP splits                             *)
ExtendStrict(chunks, r) ==
    IF chunks # <<>> /\ r.ts - Last(Last(chunks)).ts < Gap
    THEN Append(Front(chunks), Append(Last(chunks), r))
    ELSE Append(chunks, <<r>>)

Extend(chunks, r) ==
    IF chunks # <<>> /\ r.ts - Last(Last(chunks)).ts <= Gap
    THEN Append(Front(chunks), Append(Last(chunks), r))
    ELSE Append(chunks, <<r>>)

(* ORDER BY ts.                                                            *)
Ordered(S) ==
    CHOOSE f \in [1 .. Cardinality(S) -> S] :
        \A i, j \in DOMAIN f : i < j => f[i].ts < f[j].ts

Chunks(g, p) == FoldLeft(Extend, <<>>, Ordered(RowsOf(g, p)))

MakeSession(g, p, chunk) ==
    LET read == {r \in ToSet(chunk) : <<g, r.ts>> \in DOMAIN utilMap}
    IN  [gpu |-> g, pid |-> p, start |-> Head(chunk).ts, end |-> Last(chunk).ts,
         ticks |-> {r.ts : r \in ToSet(chunk)},
         used |-> MapThenSumSet(LAMBDA r : utilMap[<<g, r.ts>>], read),
         samples |-> Cardinality(read),
         peak |-> Max({r.mem : r \in ToSet(chunk)})]

Sessions == UNION {{MakeSession(g, p, c) : c \in ToSet(Chunks(g, p))} :
                        g \in Gpus, p \in Pids}

(* avg_util < ACTIVE_UTIL, where no reading counts as 0.                   *)
IdleOverAll(s) ==  \* mutant: the average over all rows of the session
    s.used < ActiveUtil * Cardinality(s.ticks)
Idle(s) == s.samples = 0 \/ s.used < ActiveUtil * s.samples
HeldSessions == {s \in Sessions : Idle(s) /\ s.peak > MemFloor}

(* live_cutoff; without a tick there is no session to compare with it.     *)
IsLiveByStart(s) == s.start >= newest - Slack  \* mutant: the wrong end
IsLive(s) == s.end >= newest - Slack
CurrentActions == {s \in HeldSessions : IsLive(s)}
PastWaste == HeldSessions \ CurrentActions
-----------------------------------------------------------------------------
Init ==
    /\ db = {} /\ pc = "utils" /\ meanwhile = 0
    /\ utilMap = <<>> /\ rows = {}
    /\ latest = NoTick /\ holder = <<>> /\ gpus = {} /\ newest = NoTick

(* write_snapshot: all rows of a tick, or none.                            *)
Commit(t) ==
    /\ Cardinality(db) < MaxTicks
    /\ pc # "utils" => meanwhile < MaxMeanwhile
    /\ \A u \in db : u.ts # t.ts
    /\ db' = db \cup {t}
    /\ meanwhile' = IF pc = "utils" THEN 0 ELSE meanwhile + 1
    /\ UNCHANGED <<pc, utilMap, rows, latest, holder, gpus, newest>>

ReadUtils ==
    /\ pc = "utils"
    /\ utilMap' = [k \in Gpus \X {t.ts : t \in InWindow} |->
                    (CHOOSE t \in db : t.ts = k[2]).util[k[1]]]
    /\ pc' = "rows"
    /\ UNCHANGED <<db, rows, latest, holder, gpus, newest, meanwhile>>

ReadRows ==
    /\ pc = "rows"
    /\ rows' = UNION {{[gpu |-> p.gpu, pid |-> p.pid, mem |-> p.mem, ts |-> t.ts] :
                        p \in Compute(t)} : t \in InWindow}
    /\ pc' = "latest"
    /\ UNCHANGED <<db, utilMap, latest, holder, gpus, newest, meanwhile>>

(* load_current_status returns early when the window is empty.             *)
ReadLatest ==
    /\ pc = "latest"
    /\ latest' = Latest
    /\ pc' = IF Latest = NoTick THEN "newest" ELSE "holders"
    /\ UNCHANGED <<db, utilMap, rows, holder, gpus, newest, meanwhile>>

(* The rows of a GPU at one tick, the first of the largest wins.           *)
At(ts) == {t \in db : t.ts = ts}
Holders(g, ts) == UNION {{p \in Compute(t) : p.gpu = g} : t \in At(ts)}
Largest(S) == {p \in S : \A q \in S : q.mem <= p.mem}

ReadHolders ==
    /\ pc = "holders"
    /\ holder' \in {h \in [Gpus -> ProcRow \cup {NoTick}] :
                        \A g \in Gpus : IF Holders(g, latest) = {} THEN h[g] = NoTick
                                        ELSE h[g] \in Largest(Holders(g, latest))}
    /\ pc' = "gpus"
    /\ UNCHANGED <<db, utilMap, rows, latest, gpus, newest, meanwhile>>

State(util, h) ==
    CASE util >= ActiveUtil -> "in_use"
      [] util < ActiveUtil /\ h # NoTick /\ h.mem > MemFloor -> "idle_held"
      [] OTHER -> "empty"

Line(t, g) ==
    [gpu |-> g, util |-> t.util[g], state |-> State(t.util[g], holder[g]),
     owner |-> IF holder[g] = NoTick THEN NoTick ELSE holder[g].pid]

(* mutant: the newest tick is asked for again                              *)
ReadGpusNewest ==
    /\ pc = "gpus"
    /\ gpus' = UNION {{Line(t, g) : g \in Gpus} : t \in At(Latest)}
    /\ pc' = "newest"
    /\ UNCHANGED <<db, utilMap, rows, latest, holder, newest, meanwhile>>

ReadGpus ==
    /\ pc = "gpus"
    /\ gpus' = UNION {{Line(t, g) : g \in Gpus} : t \in At(latest)}
    /\ pc' = "newest"
    /\ UNCHANGED <<db, utilMap, rows, latest, holder, newest, meanwhile>>

(* mutant: the newest tick of the loads read first, not asked for again    *)
ReadNewestFromMap ==
    /\ pc = "newest"
    /\ newest' = IF utilMap = <<>> THEN Latest ELSE Max({k[2] : k \in DOMAIN utilMap})
    /\ pc' = "done"
    /\ UNCHANGED <<db, utilMap, rows, latest, holder, gpus, meanwhile>>

ReadNewest ==
    /\ pc = "newest"
    /\ newest' = Latest
    /\ pc' = "done"
    /\ UNCHANGED <<db, utilMap, rows, latest, holder, gpus, meanwhile>>

(* The next report: nothing of this one is kept.                           *)
Render ==
    /\ pc = "done"
    /\ pc' = "utils" /\ meanwhile' = 0
    /\ utilMap' = <<>> /\ rows' = {}
    /\ latest' = NoTick /\ holder' = <<>> /\ gpus' = {} /\ newest' = NoTick
    /\ UNCHANGED db

Sample == \E t \in Ticks : Commit(t)
Query == ReadUtils \/ ReadRows \/ ReadLatest \/ ReadHolders \/ ReadGpus \/ ReadNewest
Next == Sample \/ Query \/ Render

Spec == Init /\ [][Next]_vars
-----------------------------------------------------------------------------
TypeOK ==
    /\ db \subseteq Ticks /\ meanwhile \in Nat
    /\ pc \in {"utils", "rows", "latest", "holders", "gpus", "newest", "done"}
    /\ rows \subseteq [gpu : Gpus, pid : Pids, mem : Mems, ts : Times]
    /\ DOMAIN utilMap \subseteq Gpus \X Times
    /\ latest \in Times \cup {NoTick} /\ newest \in Times \cup {NoTick}

(* A reference for the pairwise scan: a run is a stretch of the readings   *)
(* of a process without a gap longer than Gap inside, and none as short as *)
(* Gap around it.                                                          *)
Near(x, y) == x # y /\ x - y <= Gap /\ y - x <= Gap
IsRun(T, S) ==
    /\ T # {}
    /\ \A x \in T, y \in S \ T : ~Near(x, y)
    /\ \A x \in T \ {Max(T)} : \E y \in T : x < y /\ Near(x, y)
    /\ \A x \in S : Min(T) <= x /\ x <= Max(T) => x \in T

(* load_sessions rebuilds the runs of every process, each once, whatever   *)
(* order its ticks were committed in.                                      *)
SessionsAreRuns ==
    pc = "done" =>
        \A g \in Gpus, p \in Pids :
            LET S == {r.ts : r \in RowsOf(g, p)}
            IN  {s.ticks : s \in {t \in Sessions : t.gpu = g /\ t.pid = p}}
                    = {T \in SUBSET S : IsRun(T, S)}

(* load_current_status takes three SELECTs, between which ticks are        *)
(* committed, older ones included; what it shows of a card is one tick's   *)
(* reading of it: load, verdict and holder belong together.                *)
StatusIsOneTick ==
    pc \in {"newest", "done"} /\ latest # NoTick =>
        \E t \in db :
            /\ t.ts = latest
            /\ {s.gpu : s \in gpus} = Gpus
            /\ \A s \in gpus :
                LET here == {p \in Compute(t) : p.gpu = s.gpu}
                IN  /\ s.util = t.util[s.gpu]
                    /\ s.owner = NoTick <=> here = {}
                    /\ s.state = "idle_held" => s.util < ActiveUtil
                    /\ s.state = "empty" => \A p \in here : p.mem <= MemFloor
                    /\ \A p \in here : p.mem > MemFloor => s.state # "empty"
                    /\ s.owner # NoTick =>
                            \E p \in here : p.pid = s.owner /\ p \in Largest(here)

(* build_action_report lists a process on a card at most once among those  *)
(* to act on now: what ended before a gap is never still live, although    *)
(* the newest tick is read long after the rows.                            *)
CurrentOncePerProcess ==
    pc = "done" =>
        \A s, t \in CurrentActions : s.gpu = t.gpu /\ s.pid = t.pid => s = t

(* The ticks the report began with follow each other within LIVE_SLACK,    *)
(* those committed meanwhile are later, and the newest it ends with comes  *)
(* within LIVE_SLACK of them.                                              *)
Regular ==
    LET known == {k[2] : k \in DOMAIN utilMap}
    IN  /\ known # {}
        /\ \A x \in known : newest <= x + Slack
                          \/ \E y \in known : x < y /\ y <= x + Slack
        /\ \A t \in InWindow : t.ts \in known \/ \A x \in known : x < t.ts

(* Then what build_action_report calls past has ended: a later tick did    *)
(* not see the process on the card.                                        *)
PastIsOver ==
    pc = "done" /\ Regular =>
        \A s \in PastWaste :
            \E t \in db : t.ts > s.end /\ \A p \in Compute(t) : p.gpu # s.gpu \/ p.pid # s.pid

(* A session build_action_report calls idle-held had an idle tick, unless  *)
(* the SELECT of the loads saw none of its ticks (report.py:402 then takes *)
(* 0): it began after that SELECT, before the one of the rows.             *)
HeldUnlessUnread ==
    pc = "done" =>
        \A s \in HeldSessions :
            \/ \E t \in db : t.ts \in s.ticks /\ t.util[s.gpu] < ActiveUtil
            \/ \A ts \in s.ticks : <<s.gpu, ts>> \notin DOMAIN utilMap
=============================================================================
