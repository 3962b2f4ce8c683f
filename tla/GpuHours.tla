------------------------------ MODULE GpuHours ------------------------------
(***************************************************************************)
(* What the schedule of TickSchedule leaves in the database, and what the  *)
(* totals of the report make of it: every tick writes a row per GPU and    *)
(* one per process, under the number of the daemon's run, and the report   *)
(* turns rows back into time by weighing each with the interval of its run *)
(* (report.py, IDLE_CAPACITY_QUERY).  A daemon may be started again; a     *)
(* sync-once writes beside it, under no run.                               *)
(*                                                                         *)
(* A timestamp is an instant of TickSchedule and a rank within it: the     *)
(* clock of the timestamps is taken to run as fast as the monotonic one,   *)
(* and to tell two ticks of a run apart.                                   *)
(***************************************************************************)
EXTENDS TickSchedule, FiniteSetsExt

CONSTANTS
    Gpus,
    Snapshots,   \* what collect may return: [util, procs], see SnapshotAssumption
    ActiveUtil,  \* 10, in classify and in the queries
    MemFloor,    \* 100 MB, in both
    Fallback,    \* LEGACY_INTERVAL_FALLBACK
    NoRun,       \* a run_id of NULL
    NoOverride,  \* report without --interval
    MaxRuns,     \* bound: runs opened
    MaxWritten,  \* bound: snapshots written
    MaxOnce      \* bound: those of sync-once

ASSUME HoursAssumption ==
    /\ Fallback \in Nat /\ ActiveUtil \in Nat /\ MemFloor \in Nat
    /\ NoRun \notin Nat /\ NoOverride \notin Nat
    /\ IsFiniteSet(Gpus)

(* A load per GPU, and the processes: a size of 0 stands for an unknown    *)
(* one, as it does in every sum of the code, and one user for all unknown. *)
ASSUME SnapshotAssumption ==
    \A s \in Snapshots :
        /\ s.util \in [Gpus -> Nat]
        /\ IsFiniteSet(s.procs)
        /\ \A p \in s.procs :
              /\ p = [gpu |-> p.gpu, pid |-> p.pid, mem |-> p.mem, user |-> p.user]
              /\ p.gpu \in Gpus /\ p.mem \in Nat

VARIABLES
    run,        \* run_id of the daemon, NoRun before its first tick
    runs,       \* rows of daemon_run
    gpuSample,  \* rows of gpu_sample
    procSample, \* rows of proc_sample
    daemonRun,  \* their interval_seconds, by run
    log         \* history: the snapshots as each sampler saw them, and its interval

tables == <<gpuSample, procSample, log>>
hvars == <<vars, run, runs, daemonRun, tables>>

-----------------------------------------------------------------------------
(* The verdict on a card at a tick, in Python (classify.py, summarize.py). *)

Total(procs) == MapThenSumSet(LAMBDA p : p.mem, procs)

Classify(util, mem) ==
    CASE util >= ActiveUtil -> "active"
      [] util < ActiveUtil /\ mem > MemFloor -> "idle-held"
      [] OTHER -> "truly-idle"

Summarize(s) ==
    [g \in Gpus |-> Classify(s.util[g], Total({p \in s.procs : p.gpu = g}))]

-----------------------------------------------------------------------------
(* The same in SQL, over the rows: HEADLINE_QUERY, IDLE_CAPACITY_QUERY.    *)

(* mutant: NULL = NULL is not true                                         *)
OwnNullsApart(g) ==
    {p \in procSample : p.gpu = g.gpu /\ p.ts = g.ts /\ p.run = g.run /\ g.run # NoRun}

(* LEFT JOIN proc_sample: the processes of the card at the tick.           *)
Own(g) == {p \in procSample : p.gpu = g.gpu /\ p.ts = g.ts /\ p.run = g.run}

(* The common table s, of which the sum of no row is NULL, taken for 0.    *)
Since(c) == {[row |-> g, mem |-> Total(Own(g))] : g \in {h \in gpuSample : h.ts[1] >= c}}

Active(S)    == {j \in S : j.row.util >= ActiveUtil}
IdleHeld(S)  == {j \in S : j.row.util < ActiveUtil /\ j.mem > MemFloor}
TrulyIdle(S) == {j \in S : j.row.util < ActiveUtil /\ j.mem <= MemFloor}

(* Counts, which the queries divide by that of all rows.                   *)
Headline(S) ==
    [active |-> Cardinality(Active(S)), held |-> Cardinality(IdleHeld(S)),
     idle |-> Cardinality(TrulyIdle(S))]

(* mutant: the interval of the newest run stands for that of every run     *)
WeightOfNewest(r, override) ==
    CASE override # NoOverride -> override
      [] override = NoOverride /\ r \in DOMAIN daemonRun -> daemonRun[runs]
      [] OTHER -> Fallback

(* LEFT JOIN daemon_run; COALESCE(?, dr.interval_seconds, ?)               *)
Weight(r, override) ==
    CASE override # NoOverride -> override
      [] override = NoOverride /\ r \in DOMAIN daemonRun -> daemonRun[r]
      [] OTHER -> Fallback

Hours(S, override) == MapThenSumSet(LAMBDA j : Weight(j.row.run, override), S)
IdleCapacity(S, override) ==
    [held |-> Hours(IdleHeld(S), override), idle |-> Hours(TrulyIdle(S), override)]

(* PER_GPU_QUERY, as counts.                                               *)
PerGpu(S, g) == Headline({j \in S : j.row.gpu = g})

(* TOP_IDENTITIES_QUERY: what a user had on a card at a tick, by card,     *)
(* tick and run; joined with the load of the card.                         *)
Owned(u, c) ==
    LET mine == {p \in procSample : p.user = u /\ p.ts[1] >= c}
    IN  {[gpu |-> p.gpu, ts |-> p.ts, run |-> p.run,
          mem |-> Total({q \in mine : q.gpu = p.gpu /\ q.ts = p.ts /\ q.run = p.run})] :
            p \in mine}

TopIdentity(u, c, override) ==
    LET load == {g \in gpuSample : g.ts[1] >= c}
        Joins(o) == {g \in load : g.gpu = o.gpu /\ g.ts = o.ts /\ g.run = o.run}
        seen == UNION {{<<o, g>> : g \in Joins(o)} : o \in Owned(u, c)}
    IN  [hours |-> MapThenSumSet(LAMBDA j : Weight(j[1].run, override), seen),
         held  |-> Cardinality({j \in seen : j[2].util < ActiveUtil /\ j[1].mem > MemFloor}),
         samples |-> Cardinality(seen)]

-----------------------------------------------------------------------------
HInit ==
    /\ Init
    /\ run = NoRun /\ runs = 0 /\ daemonRun = [r \in 1 .. 0 |-> 0]
    /\ gpuSample = {} /\ procSample = {} /\ log = {}

(* Within an instant the snapshots of a run have timestamps in order.      *)
Stamp(at, r) == <<at, Cardinality({l \in log : l.run = r /\ l.ts[1] = at})>>

(* write_snapshot; what it wrote, _tick logs.                              *)
Write(s, ts, r, every) ==
    /\ Cardinality(log) < MaxWritten
    /\ gpuSample' = gpuSample \cup
            {[gpu |-> g, ts |-> ts, run |-> r, util |-> s.util[g]] : g \in Gpus}
    /\ procSample' = procSample \cup
            {[gpu |-> p.gpu, pid |-> p.pid, mem |-> p.mem, user |-> p.user,
              ts |-> ts, run |-> r] : p \in s.procs}
    /\ log' = log \cup {[ts |-> ts, run |-> r, every |-> every, snap |-> s]}

(* start_daemon_run                                                        *)
StartRun ==
    /\ runs' = runs + 1 /\ run' = runs'
    /\ daemonRun' = [r \in 1 .. runs' |-> IF r = runs' THEN interval ELSE daemonRun[r]]

(* The loop takes its timestamp; the first tick of a process opens a run.  *)
SampleBegins ==
    /\ Begin
    /\ IF run = NoRun THEN StartRun ELSE UNCHANGED <<run, runs, daemonRun>>
    /\ UNCHANGED tables

(* _tick: the snapshot is committed whole, or something raised.            *)
SampleEnds ==
    /\ TickEnds
    /\ \/ \E s \in Snapshots : Write(s, Stamp(last, run), run, interval)
       \/ UNCHANGED tables
    /\ UNCHANGED <<run, runs, daemonRun>>

Rest ==
    /\ Elapse \/ SetStop \/ Check \/ Delay \/ Wait
    /\ UNCHANGED <<run, runs, daemonRun, tables>>

(* The process has ended, at whatever point, and another one starts, with  *)
(* an interval of its own.                                                 *)
Relaunch ==
    /\ runs < MaxRuns
    /\ interval' \in Intervals
    /\ now' = now /\ pc' = "check" /\ nextAt' = now /\ n' = 0 /\ stop' = FALSE
    /\ since' = now /\ last' = Never' /\ prev' = Never' /\ begun' = 0 /\ late' = 0
    /\ run' = NoRun
    /\ UNCHANGED <<runs, daemonRun, tables>>

(* sync-once commits under a timestamp it took some time ago.              *)
OnceWrites ==
    \E at \in 0 .. now, s \in Snapshots :
        /\ Cardinality({l \in log : l.run = NoRun}) < MaxOnce
        /\ Write(s, Stamp(at, NoRun), NoRun, Fallback)
        /\ UNCHANGED <<vars, run, runs, daemonRun>>

HNext == SampleBegins \/ SampleEnds \/ Rest \/ Relaunch \/ OnceWrites

HSpec == HInit /\ [][HNext]_hvars

-----------------------------------------------------------------------------
(* The cutoffs that matter: any other one selects the rows of the next.    *)
Cutoffs == {g.ts[1] : g \in gpuSample}

WeightOf(v) == v[1].every
VerdictsOf(c, k) == {v \in log \X Gpus : v[1].ts[1] >= c /\ Summarize(v[1].snap)[v[2]] = k}

CardTotals(c) ==
    LET S == Since(c)
        held == VerdictsOf(c, "idle-held")
        idle == VerdictsOf(c, "truly-idle")
    IN  /\ Headline(S) = [active |-> Cardinality(VerdictsOf(c, "active")),
                          held |-> Cardinality(held), idle |-> Cardinality(idle)]
        /\ IdleCapacity(S, NoOverride) = [held |-> MapThenSumSet(WeightOf, held),
                                          idle |-> MapThenSumSet(WeightOf, idle)]
        /\ IdleCapacity(S, 1) = [held |-> Cardinality(held), idle |-> Cardinality(idle)]
        /\ \A g \in Gpus : PerGpu(S, g).held = Cardinality({v \in held : v[2] = g})

(* By its own memory alone: two users may hold a card neither is said to.  *)
UserTotals(c, u) ==
    LET Theirs(v) == {p \in v[1].snap.procs : p.gpu = v[2] /\ p.user = u}
        there == {v \in log \X Gpus : v[1].ts[1] >= c /\ Theirs(v) # {}}
        held == {v \in there : Classify(v[1].snap.util[v[2]], Total(Theirs(v))) = "idle-held"}
    IN  TopIdentity(u, c, NoOverride) =
            [hours |-> MapThenSumSet(WeightOf, there), held |-> Cardinality(held),
             samples |-> Cardinality(there)]

(* The two rules of classification, Python's over a snapshot and SQL's     *)
(* over the tables (report.py:7-11), agree on any window: the headline     *)
(* counts the verdicts the samplers reached, the hours weigh them, and a   *)
(* user is charged for a card and a tick once (report.py:229), although    *)
(* ticks of two samplers, or of two runs, may bear one timestamp and rows  *)
(* of no run are joined on NULL.                                           *)
TotalsMatchTheLog ==
    \A c \in Cutoffs :
        /\ CardTotals(c)
        /\ \A u \in {p.user : p \in procSample} : UserTotals(c, u)

(* The longest interval of the runs Q.                                     *)
Longest(Q) == Max({0} \cup {daemonRun[r] : r \in Q})

(* GPU-hours are time (README.md:38, across runs of different intervals):  *)
(* the idle hours load_idle_capacity finds in a window exceed what has     *)
(* passed of it, per card that was idle, by no more than the interval of   *)
(* each run in it and the longest of them for the slot the window cuts,    *)
(* whatever ticks overran, failed or were late, and however the daemon was *)
(* restarted; a row of sync-once is worth the fallback.                    *)
HoursWithinTime ==
    \A c \in Cutoffs :
        LET in == {g \in gpuSample : g.ts[1] >= c /\ g.util < ActiveUtil}
            cards == {g.gpu : g \in in}
            own == {g.run : g \in in} \ {NoRun}
            each == MapThenSumSet(LAMBDA r : daemonRun[r], own)
            idle == IdleCapacity(Since(c), NoOverride)
        IN  idle.held + idle.idle <=
                Cardinality(cards) * ((now - c) + each + Longest(own))
                + Fallback * Cardinality({g \in in : g.run = NoRun})
=============================================================================
