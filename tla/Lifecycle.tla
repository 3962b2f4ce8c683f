------------------------------ MODULE Lifecycle ------------------------------
(***************************************************************************)
(* The managed background daemon (__main__.py): gua daemon/start, status   *)
(* and stop, the PID file they share, the detached process start spawns,   *)
(* and the kernel, which hands the number of a dead process to another.    *)
(* Each command is a sequence of separate file and system calls; nothing   *)
(* locks the file.                                                         *)
(***************************************************************************)
EXTENDS Naturals, FiniteSets

CONSTANTS
    Shells,    \* terminals that run one command after another
    Pids,      \* process numbers the kernel gives to daemons
    NoPid,     \* no PID file, or one that holds no number
    MaxSpawns, \* bound: daemons started
    Restless   \* commands may be killed half-way

ASSUME LifecycleAssumption ==
    NoPid \notin Pids /\ MaxSpawns \in Nat /\ Restless \in BOOLEAN

VARIABLES
    file,    \* what _read_pid returns
    proc,    \* proc[p]: who has number p
    cmd,     \* cmd[s]: the command shell s runs, what it prints in the end;
             \* history: lost once the checked number has changed hands
    spawns,  \* daemons started
    calm,    \* history: no two commands have overlapped, none was killed
    stray    \* history: a SIGTERM reached a process the stop did not check

vars == <<file, proc, cmd, spawns, calm, stray>>

(* A daemon is starting (SIGTERM ends it at once), running, or on its way  *)
(* out; all three show the spawn command in /proc/PID/cmdline.  A dead one *)
(* keeps its number until the start that spawned it has looked or ended.   *)
Managed  == {"boot", "run", "term"}
Free     == "free"
Foreign  == "foreign"       \* a process that has nothing to do with gua
Zombie   == "zombie"

Session(pc, op, pid, out) ==
    [pc |-> pc, op |-> op, pid |-> pid, lost |-> FALSE, out |-> out]
Idle == Session("idle", "none", NoPid, "none")
Busy(s)  == cmd[s].pc # "idle"
Daemons  == {p \in Pids : proc[p] \in Managed}
Exists(p) == p # NoPid /\ proc[p] # Free              \* _pid_alive
IsManaged(p) == p # NoPid /\ proc[p] \in Managed      \* _pid_is_managed_daemon

Init ==
    /\ file = NoPid
    /\ proc = [p \in Pids |-> Free]
    /\ cmd = [s \in Shells |-> Idle]
    /\ spawns = 0 /\ calm = TRUE /\ stray = FALSE

Step(s, from, to) == cmd[s].pc = from /\ cmd' = [cmd EXCEPT ![s].pc = to]

(* The command prints its result and ends; a child that died meanwhile is  *)
(* handed to init and reaped.                                              *)
Finish(s, out) ==
    cmd' = [cmd EXCEPT ![s] = Session("idle", cmd[s].op, NoPid, out)]

Unlink == file' = NoPid

ParentOf(s, p) == cmd[s].pid = p /\ cmd[s].pc \in {"write", "written", "poll"}

Dead(p) == IF \E s \in Shells : ParentOf(s, p) THEN Zombie ELSE Free

-----------------------------------------------------------------------------
(* A command starts; every one of them begins by reading the PID file.     *)

Enter(s, op) ==
    /\ ~Busy(s)
    /\ cmd' = [cmd EXCEPT ![s] = Session("check", op, file, "none")]
    /\ calm' = (calm /\ \A r \in Shells : ~Busy(r))
    /\ UNCHANGED <<file, proc, spawns, stray>>

(* The terminal is closed, or ^C.                                          *)
KillCommand(s) ==
    /\ Restless /\ Busy(s)
    /\ cmd' = [cmd EXCEPT ![s] = Idle]
    /\ proc' = [p \in Pids |-> IF proc[p] = Zombie /\ ParentOf(s, p)
                               THEN Free ELSE proc[p]]
    /\ calm' = FALSE
    /\ UNCHANGED <<file, spawns, stray>>

-----------------------------------------------------------------------------
(* _cmd_gua_start                                                          *)

(* Already running, or the file (whatever it names by now) is removed.     *)
StartCheck(s) ==
    /\ cmd[s].pc = "check" /\ cmd[s].op = "start"
    /\ \/ IsManaged(cmd[s].pid) /\ Finish(s, "running") /\ file' = file
       \/ /\ ~IsManaged(cmd[s].pid)
          /\ Step(s, "check", IF cmd[s].pid = NoPid THEN "spawn" ELSE "clear")
          /\ file' = file
    /\ UNCHANGED <<proc, spawns, calm, stray>>

Clear(s) ==
    /\ cmd[s].op = "start" /\ Step(s, "clear", "spawn")
    /\ Unlink
    /\ UNCHANGED <<proc, spawns, calm, stray>>

(* The database named by --db exists and is not the default one.           *)
Refuse(s) ==
    /\ cmd[s].pc = "spawn"
    /\ Finish(s, "refused")
    /\ UNCHANGED <<file, proc, spawns, calm, stray>>

(* subprocess.Popen                                                        *)
Spawn(s) ==
    /\ cmd[s].pc = "spawn" /\ spawns < MaxSpawns
    /\ \E p \in Pids :
        /\ proc[p] = Free
        /\ proc' = [proc EXCEPT ![p] = "boot"]
        /\ cmd' = [cmd EXCEPT ![s].pc = "write", ![s].pid = p]
    /\ spawns' = spawns + 1
    /\ UNCHANGED <<file, calm, stray>>

(* write_text truncates the file, then writes it                           *)
Truncate(s) ==
    /\ Step(s, "write", "written")
    /\ file' = NoPid
    /\ UNCHANGED <<proc, spawns, calm, stray>>

Write(s) ==
    /\ Step(s, "written", "poll")
    /\ file' = cmd[s].pid
    /\ UNCHANGED <<proc, spawns, calm, stray>>

(* proc.poll() after 0.3 s                                                 *)
Poll(s) ==
    /\ cmd[s].pc = "poll"
    /\ \/ /\ proc[cmd[s].pid] = Zombie
          /\ proc' = [proc EXCEPT ![cmd[s].pid] = Free]
          /\ Unlink /\ Finish(s, "failed")
       \/ /\ proc[cmd[s].pid] # Zombie
          /\ Finish(s, "started")
          /\ UNCHANGED <<file, proc>>
    /\ UNCHANGED <<spawns, calm, stray>>

-----------------------------------------------------------------------------
(* _cmd_gua_status                                                         *)

StatusCheck(s) ==
    /\ cmd[s].pc = "check" /\ cmd[s].op = "status"
    /\ \/ IsManaged(cmd[s].pid) /\ Finish(s, "running")
       \/ cmd[s].pid = NoPid /\ Finish(s, "notRunning")
       \/ /\ cmd[s].pid # NoPid /\ ~IsManaged(cmd[s].pid)
          /\ Step(s, "check", "forget")
    /\ UNCHANGED <<file, proc, spawns, calm, stray>>

(* The last step of status and of stop when there is nothing to stop.      *)
Forget(s) ==
    /\ cmd[s].pc = "forget"
    /\ Unlink /\ Finish(s, "notRunning")
    /\ UNCHANGED <<proc, spawns, calm, stray>>

-----------------------------------------------------------------------------
(* _cmd_gua_stop                                                           *)

(* mutant: any process the file names will do                              *)
StopCheckAlive(s) ==
    /\ cmd[s].pc = "check" /\ cmd[s].op = "stop"
    /\ \/ Exists(cmd[s].pid) /\ Step(s, "check", "kill")
       \/ cmd[s].pid = NoPid /\ Finish(s, "notRunning")
       \/ cmd[s].pid # NoPid /\ ~Exists(cmd[s].pid) /\ Step(s, "check", "forget")
    /\ UNCHANGED <<file, proc, spawns, calm, stray>>

StopCheck(s) ==
    /\ cmd[s].pc = "check" /\ cmd[s].op = "stop"
    /\ \/ IsManaged(cmd[s].pid) /\ Step(s, "check", "kill")
       \/ cmd[s].pid = NoPid /\ Finish(s, "notRunning")
       \/ /\ cmd[s].pid # NoPid /\ ~IsManaged(cmd[s].pid)
          /\ Step(s, "check", "forget")
    /\ UNCHANGED <<file, proc, spawns, calm, stray>>

(* os.kill(pid, SIGTERM): whoever has the number now gets it; a process of *)
(* another user refuses.                                                   *)
Kill(s) ==
    /\ cmd[s].pc = "kill"
    /\ LET p == cmd[s].pid IN
        \/ proc[p] = Free /\ Step(s, "kill", "forget") /\ UNCHANGED <<proc, stray>>
        \/ /\ proc[p] # Free /\ Step(s, "kill", "await")
           /\ proc' = [proc EXCEPT ![p] = CASE @ = "boot" -> Dead(p)
                                            [] @ = "run"  -> "term"
                                            [] @ = Foreign -> Free
                                            [] OTHER -> @]
           /\ stray' = (stray \/ (proc[p] = Foreign /\ ~cmd[s].lost))
        \/ proc[p] = Foreign /\ Finish(s, "denied") /\ UNCHANGED <<proc, stray>>
    /\ UNCHANGED <<file, spawns, calm>>

(* mutant: the file goes whether the process has or not                    *)
AwaitHasty(s) ==
    /\ cmd[s].pc = "await"
    /\ Step(s, "await", "release")
    /\ UNCHANGED <<file, proc, spawns, calm, stray>>

(* for five seconds; then stop gives up and leaves the file                *)
Await(s) ==
    /\ cmd[s].pc = "await"
    /\ \/ ~Exists(cmd[s].pid) /\ Step(s, "await", "release")
       \/ Exists(cmd[s].pid) /\ Finish(s, "stillRunning")
    /\ UNCHANGED <<file, proc, spawns, calm, stray>>

Release(s) ==
    /\ cmd[s].pc = "release"
    /\ Unlink /\ Finish(s, "stopped")
    /\ UNCHANGED <<proc, spawns, calm, stray>>

-----------------------------------------------------------------------------
(* The processes.                                                          *)

Booted(p) ==
    /\ proc[p] = "boot"
    /\ proc' = [proc EXCEPT ![p] = "run"]
    /\ UNCHANGED <<file, cmd, spawns, calm, stray>>

(* it refuses to start, crashes, or ends after SIGTERM                     *)
Exits(p) ==
    /\ proc[p] \in Managed
    /\ proc' = [proc EXCEPT ![p] = Dead(p)]
    /\ UNCHANGED <<file, cmd, spawns, calm, stray>>

Reuse(p) ==
    /\ proc[p] = Free
    /\ proc' = [proc EXCEPT ![p] = Foreign]
    /\ cmd' = [s \in Shells |-> IF cmd[s].pc = "kill" /\ cmd[s].pid = p
                                THEN [cmd[s] EXCEPT !.lost = TRUE] ELSE cmd[s]]
    /\ UNCHANGED <<file, spawns, calm, stray>>

ForeignExits(p) ==
    /\ proc[p] = Foreign
    /\ proc' = [proc EXCEPT ![p] = Free]
    /\ UNCHANGED <<file, cmd, spawns, calm, stray>>

Start(s)  == StartCheck(s) \/ Clear(s) \/ Refuse(s) \/ Spawn(s)
             \/ Truncate(s) \/ Write(s) \/ Poll(s)
Status(s) == StatusCheck(s) \/ Forget(s)
Stop(s)   == StopCheck(s) \/ Kill(s) \/ Await(s) \/ Release(s)

Next ==
    \/ \E s \in Shells :
        \/ \E op \in {"start", "status", "stop"} : Enter(s, op)
        \/ Start(s) \/ Status(s) \/ Stop(s)
        \/ KillCommand(s)
    \/ \E p \in Pids : Booted(p) \/ Exits(p) \/ Reuse(p) \/ ForeignExits(p)

Spec == Init /\ [][Next]_vars

-----------------------------------------------------------------------------
Phases == {"idle", "check", "clear", "spawn", "write", "written", "poll",
           "forget", "kill", "await", "release"}
Outcomes == {"none", "running", "notRunning", "refused", "failed", "started",
             "denied", "stillRunning", "stopped"}
Sessions == [pc : Phases, op : {"none", "start", "status", "stop"},
             pid : Pids \cup {NoPid}, lost : BOOLEAN, out : Outcomes]

(* The values each variable takes.                                         *)
TypeOK ==
    /\ file \in Pids \cup {NoPid}
    /\ proc \in [Pids -> Managed \cup {Free, Foreign, Zombie}]
    /\ cmd \in [Shells -> Sessions]
    /\ spawns \in Nat /\ calm \in BOOLEAN /\ stray \in BOOLEAN

(* While commands neither overlap nor die half-way, a managed daemon that  *)
(* is alive is the one the PID file names as soon as no command runs: at   *)
(* most one, and status and stop can find it, whatever dies or takes over  *)
(* its number in between (__main__.py:736-740, 811-814).                   *)
DaemonIsNamed ==
    calm /\ (\A s \in Shells : ~Busy(s)) => Daemons \subseteq {file}

(* Under the same conditions a status or stop that says that no daemon is  *)
(* running (any more) is right at that moment (README.md:136-137).         *)
NotRunningIsTrue ==
    [][\A s \in Shells :
         Busy(s) /\ calm' /\ cmd'[s].out \in {"notRunning", "stopped"}
         => Daemons' = {}]_vars

(* Whoever runs what at the same time, SIGTERM reaches a process that is   *)
(* no daemon of ours only if the number changed hands after stop checked   *)
(* it (CHANGELOG.md:136, __main__.py:796-798).                             *)
NoStraySignal == ~stray

=============================================================================
